---------------------------- MODULE Spec2Model ----------------------------
(***************************************************************************)
(* A model of the bartdorsey VS Code configuration extension:              *)
(*   extension.ts  the environment detector, the extension catalogs and    *)
(*                 the five command handlers registered by activate()      *)
(*   settings.ts   the settings catalogs and getSettingsForEnvironment     *)
(*   statusBar.ts  the StatusBar class                                     *)
(*                                                                         *)
(* The host editor is modelled by three pieces of state the handlers act   *)
(* on through its API: the registry of installed extensions, the Global    *)
(* configuration store and the extension's globalState memento.  A command *)
(* handler is an async function: every `await` of a host call or a dialog  *)
(* is a point where the handler is suspended, so every handler is cut into *)
(* one action per segment between two awaits.                              *)
(***************************************************************************)
EXTENDS Integers, Sequences, FiniteSets, TLC

(***************************************************************************)
(* JavaScript values.  `undefined` stands for the JS value undefined where *)
(* the code holds a string or undefined (vscode.env.remoteName, a dialog's *)
(* answer).  A string the code inspects by character (os.release()) is a   *)
(* sequence of one-character strings.                                      *)
(***************************************************************************)
undefined == "undefined"

UpperToLower ==
  <<<<"A", "a">>, <<"B", "b">>, <<"C", "c">>, <<"D", "d">>, <<"E", "e">>, <<"F", "f">>,
    <<"G", "g">>, <<"H", "h">>, <<"I", "i">>, <<"J", "j">>, <<"K", "k">>, <<"L", "l">>,
    <<"M", "m">>, <<"N", "n">>, <<"O", "o">>, <<"P", "p">>, <<"Q", "q">>, <<"R", "r">>,
    <<"S", "s">>, <<"T", "t">>, <<"U", "u">>, <<"V", "v">>, <<"W", "w">>, <<"X", "x">>,
    <<"Y", "y">>, <<"Z", "z">>>>

\* String.prototype.toLowerCase, on one character and on a string
LowerChar(c) ==
  IF \E p \in 1..Len(UpperToLower) : UpperToLower[p][1] = c
    THEN UpperToLower[CHOOSE p \in 1..Len(UpperToLower) : UpperToLower[p][1] = c][2]
    ELSE c

toLowerCase(s) == [p \in 1..Len(s) |-> LowerChar(s[p])]

\* String.prototype.includes
includes(s, sub) ==
  \E p \in 0..(Len(s) - Len(sub)) : SubSeq(s, p + 1, p + Len(sub)) = sub

\* Array.prototype.includes
arrayIncludes(list, x) == \E p \in 1..Len(list) : list[p] = x

\* Array.prototype.filter with the predicate "is not an element of `excluded`"
filterNotIn(list, excluded) ==
  SelectSeq(list, LAMBDA id : ~arrayIncludes(excluded, id))

microsoft == <<"m", "i", "c", "r", "o", "s", "o", "f", "t">>

VARIABLE
  catalogs          \* the module-level arrays and objects of extension.ts and settings.ts

(***************************************************************************)
(* extension.ts: the extension catalogs                                    *)
(***************************************************************************)
REQUIRED_EXTENSIONS_literal ==
  << "vscodevim.vim",
     "usernamehw.errorlens",
     "ms-azuretools.vscode-containers",
     "ms-vscode-remote.remote-containers",
     "github.vscode-github-actions",
     "ms-python.python",
     "ms-python.debugpy",
     "ms-python.black-formatter",
     "ms-python.flake8",
     "ms-python.vscode-python-envs",
     "chadalen.vscode-jetbrains-icon-theme",
     "jdinhlife.gruvbox",
     "esbenp.prettier-vscode",
     "dbaeumer.vscode-eslint",
     "mattpocock.ts-error-translator",
     "yzhang.markdown-all-in-one",
     "bierner.markdown-mermaid",
     "myriad-dreamin.tinymist",
     "myriad-dreamin.tinymist-vscode-html",
     "pomdtr.excalidraw-editor",
     "ms-vscode.cpptools",
     "ms-vscode.cpptools-extension-pack",
     "ms-vscode.cmake-tools",
     "sst-dev.opencode",
     "Anthropic.claude-code" >>

COPILOT_EXTENSIONS_literal == <<"github.copilot", "github.copilot-chat">>

WSL_EXTENSION == "ms-vscode-remote.remote-wsl"

WINDOWS_EXTENSIONS_literal == <<"rosc.vs64">>

LINUX_EXTENSIONS_literal == <<>>

WSL_SPECIFIC_EXTENSIONS_literal == <<>>

\* The module-level arrays as they are now: a `const` array can still be
\* pushed to
REQUIRED_EXTENSIONS == catalogs.REQUIRED_EXTENSIONS
COPILOT_EXTENSIONS == catalogs.COPILOT_EXTENSIONS
WINDOWS_EXTENSIONS == catalogs.WINDOWS_EXTENSIONS
LINUX_EXTENSIONS == catalogs.LINUX_EXTENSIONS
WSL_SPECIFIC_EXTENSIONS == catalogs.WSL_SPECIFIC_EXTENSIONS

Environments == {"windows", "wsl", "linux", "other"}

(***************************************************************************)
(* extension.ts: getEnvironment().  Its inputs are vscode.env.remoteName,  *)
(* os.platform() and os.release().                                         *)
(***************************************************************************)
\* A variant of getEnvironment() that leaves out toLowerCase()
getEnvironmentCaseSensitive(remote, plat, rel) ==
  IF remote = "wsl" THEN "wsl"
  ELSE IF plat = "win32" THEN "windows"
  ELSE IF plat = "linux" /\ includes(rel, microsoft) THEN "wsl"
  ELSE IF plat = "linux" THEN "linux"
  ELSE "other"

\* getEnvironment()
getEnvironment(remote, plat, rel) ==
  IF remote = "wsl" THEN "wsl"
  ELSE IF plat = "win32" THEN "windows"
  ELSE IF plat = "linux" /\ includes(toLowerCase(rel), microsoft) THEN "wsl"
  ELSE IF plat = "linux" THEN "linux"
  ELSE "other"

\* extension.ts: getExtensionsForEnvironment(environment)
getExtensionsForEnvironment(environment) ==
  CASE environment = "windows" ->
         REQUIRED_EXTENSIONS \o WINDOWS_EXTENSIONS \o <<WSL_EXTENSION>>
    [] environment = "wsl" ->
         REQUIRED_EXTENSIONS \o WINDOWS_EXTENSIONS \o WSL_SPECIFIC_EXTENSIONS
           \o <<WSL_EXTENSION>>
    [] environment = "linux" -> REQUIRED_EXTENSIONS \o LINUX_EXTENSIONS
    [] OTHER -> REQUIRED_EXTENSIONS

\* A variant of that list that leaves out WINDOWS_EXTENSIONS
extensionsToInstallNoWindowsTools(environment) ==
  CASE environment = "windows" -> REQUIRED_EXTENSIONS \o <<WSL_EXTENSION>>
    [] environment = "wsl" -> REQUIRED_EXTENSIONS \o <<WSL_EXTENSION>>
    [] OTHER -> REQUIRED_EXTENSIONS

\* extension.ts: the list installExtensions() builds before its loop
extensionsToInstall(environment) ==
  CASE environment = "windows" ->
         REQUIRED_EXTENSIONS \o WINDOWS_EXTENSIONS \o <<WSL_EXTENSION>>
    [] environment = "wsl" ->
         REQUIRED_EXTENSIONS \o WINDOWS_EXTENSIONS \o WSL_SPECIFIC_EXTENSIONS
           \o <<WSL_EXTENSION>>
    [] environment = "linux" -> REQUIRED_EXTENSIONS \o LINUX_EXTENSIONS
    [] OTHER -> REQUIRED_EXTENSIONS

\* extension.ts: the list cleanup builds before its uninstall loop
dependenciesToUninstallFirst ==
  <<"ms-python.black-formatter", "ms-python.flake8", "github.copilot-chat">>

allExtensions(environment) ==
  CASE environment = "windows" ->
         REQUIRED_EXTENSIONS \o WINDOWS_EXTENSIONS \o <<WSL_EXTENSION>>
    [] environment = "wsl" ->
         REQUIRED_EXTENSIONS \o WINDOWS_EXTENSIONS \o WSL_SPECIFIC_EXTENSIONS
           \o <<WSL_EXTENSION>>
    [] environment = "linux" -> REQUIRED_EXTENSIONS \o LINUX_EXTENSIONS
    [] OTHER -> REQUIRED_EXTENSIONS

\* A variant in which the list is REQUIRED_EXTENSIONS itself, not a copy
\* (`= REQUIRED_EXTENSIONS` for `= [...REQUIRED_EXTENSIONS]`)
pushTargetAliased == "REQUIRED_EXTENSIONS"

\* The array the push calls of getExtensionsForEnvironment, installExtensions
\* and cleanup write to: the one `[...REQUIRED_EXTENSIONS]` made, which is no
\* module-level array
pushTarget == "fresh"

\* The module-level arrays after the push calls that left `list` in their
\* target
catalogsAfterPush(list) ==
  IF pushTarget \in DOMAIN catalogs
    THEN [catalogs EXCEPT ![pushTarget] = list]
    ELSE catalogs

\* A variant of cleanup's order that uninstalls in the order of the catalog
cleanupUninstallOrderAsListed(environment) == allExtensions(environment)

\* cleanup: uninstallOrder
cleanupUninstallOrder(environment) ==
  dependenciesToUninstallFirst
    \o filterNotIn(allExtensions(environment), dependenciesToUninstallFirst)

\* extension.ts: the list disableCopilot uninstalls
disableUninstallOrder == <<"github.copilot-chat", "github.copilot">>

(***************************************************************************)
(* settings.ts.  A setting value is a JSON value: kind is its JS type,     *)
(* lit the JSON text of a scalar or an array, props the properties of an   *)
(* object in insertion order, each a pair <<name, JSON text of the value>>.*)
(* A settings object (Record<string, any>) is the sequence of its entries  *)
(* in insertion order, which is the order Object.entries and Object.keys   *)
(* enumerate.                                                              *)
(***************************************************************************)
Bool(b) == [kind |-> "boolean", lit |-> IF b THEN "true" ELSE "false", props |-> <<>>]
Num(n) == [kind |-> "number", lit |-> n, props |-> <<>>]
Str(s) == [kind |-> "string", lit |-> s, props |-> <<>>]
Arr(json) == [kind |-> "array", lit |-> json, props |-> <<>>]
Obj(properties) == [kind |-> "object", lit |-> "", props |-> properties]
Undefined == [kind |-> "undefined", lit |-> "", props |-> <<>>]

Entry(k, v) == [key |-> k, value |-> v]

\* Object.keys
keys(obj) == [p \in 1..Len(obj) |-> obj[p].key]
keySet(obj) == {obj[p].key : p \in 1..Len(obj)}
\* obj[k], for a key the object has
valueOf(obj, k) == obj[CHOOSE p \in 1..Len(obj) : obj[p].key = k].value

\* A variant of the spread in which a's value wins on a key of both
spreadLeftWins(a, b) ==
  a \o SelectSeq(b, LAMBDA e : e.key \notin keySet(a))

\* { ...a, ...b }: a's keys keep their place and take b's value where b has
\* the key; b's other keys follow in b's order
spread(a, b) ==
  [p \in 1..Len(a) |->
     IF a[p].key \in keySet(b) THEN Entry(a[p].key, valueOf(b, a[p].key)) ELSE a[p]]
    \o SelectSeq(b, LAMBDA e : e.key \notin keySet(a))

commonSettings_literal ==
  <<
    Entry("workbench.tree.indent", Num("20")),
    Entry("workbench.editor.labelFormat", Str("short")),
    Entry("workbench.iconTheme", Str("vscode-jetbrains-icon-theme-2023-auto")),
    Entry("workbench.startupEditor", Str("none")),
    Entry("workbench.colorTheme", Str("Gruvbox Dark Hard")),
    Entry("explorer.compactFolders", Bool(FALSE)),
    Entry("editor.tabSize", Num("4")),
    Entry("editor.insertSpaces", Bool(TRUE)),
    Entry("editor.formatOnSave", Bool(TRUE)),
    Entry("editor.formatOnPaste", Bool(TRUE)),
    Entry("editor.bracketPairColorization.enabled", Bool(TRUE)),
    Entry("editor.guides.bracketPairs", Bool(TRUE)),
    Entry("editor.inlayHints.enabled", Str("offUnlessPressed")),
    Entry("editor.rulers", Arr("[80]")),
    Entry("editor.minimap.enabled", Bool(FALSE)),
    Entry("editor.wordWrap", Str("wordWrapColumn")),
    Entry("editor.wrappingStrategy", Str("advanced")),
    Entry("editor.fontFamily", Str("Iosevka Nerd Font")),
    Entry("git.openRepositoryInParentFolders", Str("always")),
    Entry("git.autofetch", Bool(TRUE)),
    Entry("github.copilot.enable", Obj(<<<<"*", "false">>, <<"plaintext", "false">>, <<"markdown", "false">>, <<"scminput", "false">>, <<"css", "false">>>>)),
    Entry("chat.disableAIFeatures", Bool(FALSE)),
    Entry("errorLens.problemRangeDecorationEnabled", Bool(TRUE)),
    Entry("errorLens.gutterIconSet", Str("square")),
    Entry("errorLens.followCursor", Str("closestProblem")),
    Entry("files.trimTrailingWhitespace", Bool(TRUE)),
    Entry("files.trimFinalNewlines", Bool(TRUE)),
    Entry("files.insertFinalNewline", Bool(TRUE)),
    Entry("files.exclude", Obj(<<<<"**/.venv", "true">>, <<"**/.git", "true">>, <<"**/.DS_Store", "true">>, <<"**/node_modules", "true">>, <<"**/.vscode", "false">>>>)),
    Entry("markdown-mermaid.lightModeTheme", Str("dark")),
    Entry("[markdown]", Obj(<<<<"editor.defaultFormatter", "\"esbenp.prettier-vscode\"">>>>)),
    Entry("emmet.includeLanguages", Obj(<<<<"django-html", "\"html\"">>, <<"jinja-html", "\"html\"">>, <<"javascript", "\"javascriptreact\"">>>>)),
    Entry("redhat.telemetry.enabled", Bool(FALSE)),
    Entry("terminal.integrated.scrollback", Num("10000")),
    Entry("javascript.updateImportsOnFileMove.enabled", Str("always")),
    Entry("typescript.updateImportsOnFileMove.enabled", Str("always")),
    Entry("javascript.suggest.autoImports", Bool(FALSE)),
    Entry("typescript.suggest.autoImports", Bool(FALSE)),
    Entry("javascript.inlayHints.functionLikeReturnTypes.enabled", Bool(TRUE)),
    Entry("javascript.inlayHints.parameterNames.enabled", Str("all")),
    Entry("javascript.inlayHints.parameterTypes.enabled", Bool(TRUE)),
    Entry("javascript.inlayHints.propertyDeclarationTypes.enabled", Bool(TRUE)),
    Entry("javascript.inlayHints.variableTypes.enabled", Bool(TRUE)),
    Entry("typescript.inlayHints.enumMemberValues.enabled", Bool(TRUE)),
    Entry("typescript.inlayHints.functionLikeReturnTypes.enabled", Bool(TRUE)),
    Entry("typescript.inlayHints.parameterNames.enabled", Str("all")),
    Entry("typescript.inlayHints.parameterTypes.enabled", Bool(TRUE)),
    Entry("typescript.inlayHints.propertyDeclarationTypes.enabled", Bool(TRUE)),
    Entry("typescript.inlayHints.variableTypes.enabled", Bool(TRUE)),
    Entry("[javascript]", Obj(<<<<"editor.defaultFormatter", "\"esbenp.prettier-vscode\"">>>>)),
    Entry("[javascriptreact]", Obj(<<<<"editor.defaultFormatter", "\"esbenp.prettier-vscode\"">>>>)),
    Entry("[typescript]", Obj(<<<<"editor.defaultFormatter", "\"esbenp.prettier-vscode\"">>>>)),
    Entry("[typescriptreact]", Obj(<<<<"editor.defaultFormatter", "\"esbenp.prettier-vscode\"">>>>)),
    Entry("totalTypeScript.hideAllTips", Bool(FALSE)),
    Entry("totalTypeScript.hideBasicTips", Bool(FALSE)),
    Entry("python.analysis.autoImportCompletions", Bool(FALSE)),
    Entry("python.analysis.typeCheckingMode", Str("standard")),
    Entry("python.analysis.diagnosticMode", Str("workspace")),
    Entry("python.analysis.completeFunctionParens", Bool(TRUE)),
    Entry("python.analysis.generateWithTypeAnnotation", Bool(TRUE)),
    Entry("python.analysis.inlayHints.callArgumentNames", Str("all")),
    Entry("python.analysis.inlayHints.functionReturnTypes", Bool(TRUE)),
    Entry("python.analysis.inlayHints.variableTypes", Bool(TRUE)),
    Entry("python.analysis.typeEvaluation.strictDictionaryInference", Bool(TRUE)),
    Entry("python.analysis.typeEvaluation.strictListInference", Bool(TRUE)),
    Entry("python.analysis.typeEvaluation.strictSetInference", Bool(TRUE)),
    Entry("[python]", Obj(<<<<"editor.defaultFormatter", "\"ms-python.black-formatter\"">>>>)),
    Entry("html.format.indentInnerHtml", Bool(TRUE)),
    Entry("[css]", Obj(<<<<"editor.defaultFormatter", "\"esbenp.prettier-vscode\"">>>>)),
    Entry("vim.vimrc.path", Str("$HOME/.config/vim/vimrc")),
    Entry("vim.vimrc.enable", Bool(TRUE)),
    Entry("vim.neovimUseConfigFile", Bool(TRUE)),
    Entry("vim.leader", Str("<space>")),
    Entry("vim.highlightedyank.enable", Bool(TRUE)),
    Entry("vim.useSystemClipboard", Bool(TRUE)),
    Entry("vim.sneak", Bool(TRUE)),
    Entry("vim.sneakReplacesF", Bool(TRUE)),
    Entry("open-in-vim.useNeovim", Bool(TRUE)),
    Entry("vim.normalModeKeyBindingsNonRecursive", Arr("[{\"before\":[\"<leader>\",\"/\"],\"after\":[\"<leader>\",\"<leader>\",\"s\"]}]")),
    Entry("vim.normalModeKeyBindings", Arr("[{\"before\":[\"<leader>\",\"f\",\"f\"],\"commands\":[\"television.ToggleFileFinder\"]},{\"before\":[\"<leader>\",\"f\",\"r\"],\"commands\":[\"television.ToggleTextFinder\"]},{\"before\":[\"<leader>\",\"<space>\"],\"commands\":[\"workbench.action.showAllEditors\"]}]"))
  >>

windowsSettings_literal ==
  <<
    Entry("vs64.showWelcome", Bool(FALSE)),
    Entry("vs64.kickInstallDir", Str("E:\\c64\\coding\\KickAssembler")),
    Entry("vs64.acmeInstallDir", Str("E:\\c64\\coding")),
    Entry("vs64.viceExecutable", Str("E:\\GTK3VICE-3.10-win64\\bin\\x64sc.exe")),
    Entry("vs64.llvmInstallDir", Str("E:\\c64\\coding\\llvm-mos")),
    Entry("vs64.cc65InstallDir", Str("C:\\Users\\bart\\scoop\\apps\\cc65\\current")),
    Entry("vs64.oscar64InstallDir", Str("C:\\Program Files\\Oscar64"))
  >>

linuxSettings_literal ==
  <<
  >>

wslSettings_literal ==
  <<
  >>

\* The module-level objects of settings.ts as they are now
commonSettings == catalogs.commonSettings
windowsSettings == catalogs.windowsSettings
linuxSettings == catalogs.linuxSettings
wslSettings == catalogs.wslSettings

\* The module-level arrays and objects when the extension is loaded
ModuleLoaded ==
  [REQUIRED_EXTENSIONS |-> REQUIRED_EXTENSIONS_literal,
   COPILOT_EXTENSIONS |-> COPILOT_EXTENSIONS_literal,
   WINDOWS_EXTENSIONS |-> WINDOWS_EXTENSIONS_literal,
   LINUX_EXTENSIONS |-> LINUX_EXTENSIONS_literal,
   WSL_SPECIFIC_EXTENSIONS |-> WSL_SPECIFIC_EXTENSIONS_literal,
   commonSettings |-> commonSettings_literal,
   windowsSettings |-> windowsSettings_literal,
   linuxSettings |-> linuxSettings_literal,
   wslSettings |-> wslSettings_literal]

\* settings.ts: getSettingsForEnvironment(environment)
osSpecificSettings(environment) ==
  CASE environment = "windows" -> windowsSettings
    [] environment = "wsl" -> spread(windowsSettings, wslSettings)
    [] environment = "linux" -> linuxSettings
    [] OTHER -> <<>>

getSettingsForEnvironment(environment) ==
  spread(commonSettings, osSpecificSettings(environment))


(***************************************************************************)
(* statusBar.ts                                                            *)
(***************************************************************************)
NotStarted == "not-started"
InProgress == "in-progress"
Complete == "complete"
Error == "error"

SetupStatus == {NotStarted, InProgress, Complete, Error}

\* A variant of getEnvironmentLabel that looks for "microsoft" in the release
\* as it is spelled
getEnvironmentLabelCaseSensitive(remote, plat, rel) ==
  IF remote = "wsl" THEN " [WSL]"
  ELSE IF plat = "win32" THEN " [Windows]"
  ELSE IF plat = "linux" /\ includes(rel, microsoft) THEN " [WSL]"
  ELSE IF plat = "linux" THEN " [Linux]"
  ELSE ""

\* StatusBar.getEnvironmentLabel()
getEnvironmentLabel(remote, plat, rel) ==
  IF remote = "wsl" THEN " [WSL]"
  ELSE IF plat = "win32" THEN " [Windows]"
  ELSE IF plat = "linux" /\ includes(toLowerCase(rel), microsoft) THEN " [WSL]"
  ELSE IF plat = "linux" THEN " [Linux]"
  ELSE ""

\* StatusBar.updateStatusBar(): the item it leaves for a status and a label
updateStatusBar(status, envLabel) ==
  CASE status = NotStarted ->
         [text |-> "$(gear)",
          tooltip |-> <<envLabel, ": Click to configure settings">>,
          backgroundColor |-> undefined]
    [] status = InProgress ->
         [text |-> "$(sync~spin)",
          tooltip |-> <<envLabel, ": Setup in progress...">>,
          backgroundColor |-> undefined]
    [] status = Complete ->
         [text |-> "$(check)",
          tooltip |-> <<envLabel, ": Setup complete">>,
          backgroundColor |-> "statusBarItem.prominentBackground"]
    [] status = Error ->
         [text |-> "$(warning)",
          tooltip |-> <<envLabel, ": Setup completed with errors. Click to retry.">>,
          backgroundColor |-> "statusBarItem.errorBackground"]

(***************************************************************************)
(* Bounds of the model.                                                    *)
(*   MaxSlots        command invocations that can be suspended at once     *)
(*   MaxInvocations  command invocations in one session                    *)
(*   MaxFaults       host calls that throw in one session (an uninstall of *)
(*                   an extension that is not installed is not counted: it *)
(*                   always throws)                                        *)
(***************************************************************************)
MaxSlots == 2
MaxInvocations == 2
MaxFaults == 2

Slots == 1..MaxSlots

(***************************************************************************)
(* The extensions and the setting keys whose host calls the model follows. *)
(* The handlers' loops treat every item of a list alike, so the model      *)
(* follows the items the environments differ in and the ones an uninstall  *)
(* order or the Copilot toggle names, and one more of each catalog.        *)
(***************************************************************************)
FollowedExtensions ==
  { "vscodevim.vim", "ms-python.python", "ms-python.flake8",
    "github.copilot", "github.copilot-chat", "rosc.vs64", WSL_EXTENSION }

FollowedKeys ==
  { "workbench.tree.indent", "github.copilot.enable", "chat.disableAIFeatures",
    "vs64.showWelcome" }

followedExtensions(list) == SelectSeq(list, LAMBDA id : id \in FollowedExtensions)
followedSettings(obj) == SelectSeq(obj, LAMBDA e : e.key \in FollowedKeys)

VARIABLES
  remoteName,       \* vscode.env.remoteName
  platform,         \* os.platform()
  release,          \* os.release()
  extensions,       \* the host's registry: the ids vscode.extensions.getExtension finds
  configuration,    \* the host's Global configuration store: key -> value
  globalState,      \* context.globalState: the set of keys stored with true
  currentStatus,    \* StatusBar.currentStatus
  statusBarItem,    \* StatusBar.statusBarItem: text, tooltip, backgroundColor
  inv,              \* the command invocations, one per slot
  pending,          \* the host calls issued and not yet settled
  faults,           \* host calls that threw so far
  invocations,      \* command invocations so far
  installRequests,  \* the ids passed to workbench.extensions.installExtension so far
  keysWritten,      \* the keys passed to config.update with a value so far
  probe,            \* the last result of a catalog function applied on its own
  menu              \* bartdorsey.showMenu: the quick pick, its items and the choice

hostVars == <<remoteName, platform, release>>
storeVars == <<extensions, configuration, globalState>>
statusVars == <<currentStatus, statusBarItem>>
vars ==
  <<remoteName, platform, release, extensions, configuration, globalState,
    currentStatus, statusBarItem, inv, pending, faults, invocations,
    installRequests, keysWritten, probe, menu, catalogs>>

\* StatusBar.setStatus(status)
setStatus(status) ==
  /\ currentStatus' = status
  /\ statusBarItem' =
       updateStatusBar(status, getEnvironmentLabel(remoteName, platform, release))

(***************************************************************************)
(* A command invocation: the handler's local variables, where it is        *)
(* suspended (pc), and what it did so far (log, notifications, executed). *)
(*   pc  "idle"          the slot holds no invocation                      *)
(*       "confirm"       awaiting the confirmation dialog                  *)
(*       "installAwait"  awaiting installExtension for list[i + 1]         *)
(*       "uninstallAwait" awaiting uninstallExtension for list[i + 1]      *)
(*       "updateAwait"   awaiting config.update for settings[j + 1]        *)
(*       "backupAwait"   awaiting context.globalState.update               *)
(*       "finalPrompt"   awaiting the dialog that carries the summary      *)
(*       "done"          the handler returned                              *)
(***************************************************************************)
\* A host call of an invocation's log: what was called with what, and how the
\* host settled it ("pending" until it does; "found" for a getExtension that
\* found the extension, after which the loop makes no call for it)
Call(op, target, value, scope) ==
  [op |-> op, target |-> target, value |-> value, scope |-> scope,
   outcome |-> "pending"]

Global == "ConfigurationTarget.Global"
NoScope == ""

IdleInvocation ==
  [cmd |-> "none", pc |-> "idle", environment |-> "other", answer |-> "none",
   list |-> <<>>, i |-> 0,
   installed |-> 0, failed |-> 0, skipped |-> 0,
   uninstalled |-> 0, uninstallFailed |-> 0, failedExtensions |-> <<>>,
   settings |-> <<>>, j |-> 0,
   settingsSuccess |-> 0, settingsError |-> 0, settingsFailed |-> 0,
   settingsReset |-> 0,
   log |-> <<>>, notifications |-> <<>>, executed |-> <<>>]

NewInvocation(cmd, environment) ==
  [IdleInvocation EXCEPT !.cmd = cmd, !.pc = "confirm", !.environment = environment]

\* A variant of awaitedCall in which cleanup resets at Workspace scope
awaitedCallWorkspaceReset(r) ==
  CASE r.pc = "installAwait" ->
         Call("installExtension", r.list[r.i + 1], Undefined, NoScope)
    [] r.pc = "uninstallAwait" ->
         Call("uninstallExtension", r.list[r.i + 1], Undefined, NoScope)
    [] r.pc = "updateAwait" ->
         Call("update", r.settings[r.j + 1].key, r.settings[r.j + 1].value,
              IF r.cmd = "cleanup" THEN "ConfigurationTarget.Workspace" ELSE Global)
    [] r.pc = "backupAwait" ->
         Call("globalState.update", "backupCreated", Bool(TRUE), NoScope)

\* The host call an invocation suspended at an await is waiting for
awaitedCall(r) ==
  CASE r.pc = "installAwait" ->
         Call("installExtension", r.list[r.i + 1], Undefined, NoScope)
    [] r.pc = "uninstallAwait" ->
         Call("uninstallExtension", r.list[r.i + 1], Undefined, NoScope)
    [] r.pc = "updateAwait" ->
         Call("update", r.settings[r.j + 1].key, r.settings[r.j + 1].value, Global)
    [] r.pc = "backupAwait" ->
         Call("globalState.update", "backupCreated", Bool(TRUE), NoScope)

AwaitPcs == {"installAwait", "uninstallAwait", "updateAwait", "backupAwait"}

InFlight(s, call) == [slot |-> s, call |-> call]

\* A variant that starts the calls of all remaining items at once, as a
\* Promise.all over the list would
issuedCallsFanOut(s, r) ==
  CASE r.pc \in {"installAwait", "uninstallAwait"} ->
         {InFlight(s, Call(awaitedCall(r).op, r.list[p], Undefined, NoScope)) :
            p \in (r.i + 1)..Len(r.list)}
    [] r.pc = "updateAwait" ->
         {InFlight(s, Call("update", r.settings[p].key, r.settings[p].value, Global)) :
            p \in (r.j + 1)..Len(r.settings)}
    [] r.pc = "backupAwait" -> {InFlight(s, awaitedCall(r))}
    [] OTHER -> {}

\* The host calls a handler issues when it runs up to the await of r
issuedCalls(s, r) ==
  IF r.pc \in AwaitPcs THEN {InFlight(s, awaitedCall(r))} ELSE {}

\* A handler segment ends: the invocation of slot s is now r, the host call it
\* was resumed by (if any) is settled, and the call it awaits is in flight
Suspend(s, r, settled) ==
  /\ inv' = [inv EXCEPT ![s] = r]
  /\ pending' = (pending \ settled) \cup issuedCalls(s, r)
  /\ installRequests' = installRequests \cup
       {c.call.target : c \in {d \in issuedCalls(s, r) : d.call.op = "installExtension"}}
  /\ keysWritten' = keysWritten \cup
       {c.call.target : c \in {d \in issuedCalls(s, r) :
                                 d.call.op = "update" /\ d.call.value # Undefined}}

\* Issuing the call an invocation awaits appends it to the invocation's log
issue(r) == [r EXCEPT !.log = Append(@, awaitedCall(r))]

\* The host settles the call an invocation awaits
settle(r, outcome) == [r EXCEPT !.log[Len(r.log)].outcome = outcome]

Free(s) == inv[s].pc \in {"idle", "done"}
\* A new invocation takes the first free slot
CanInvoke(s) ==
  /\ Free(s)
  /\ \A t \in Slots : t < s => ~Free(t)
  /\ invocations < MaxInvocations

\* The host settles a call with an outcome; a thrown error uses the fault budget
Budget(outcome) ==
  /\ outcome \in {"error", "notRegistered"} => faults < MaxFaults
  /\ faults' = IF outcome \in {"error", "notRegistered"} THEN faults + 1 ELSE faults

\* message parts: `${count} ${what}`
Part(count, what) == [count |-> count, what |-> what]
parts(candidates) == SelectSeq(candidates, LAMBDA p : p.count > 0)

Notification(severity, success, messages, errors, failedList) ==
  [severity |-> severity, success |-> success, messages |-> messages,
   errors |-> errors, failedList |-> failedList]

(***************************************************************************)
(* extension.ts: installExtensions() and bartdorsey.configureSettings      *)
(***************************************************************************)
\* The items from list[i + 1] on that vscode.extensions.getExtension finds
RECURSIVE skipRun(_, _, _)
skipRun(list, i, ext) ==
  IF i < Len(list) /\ list[i + 1] \in ext THEN 1 + skipRun(list, i + 1, ext) ELSE 0

Skips(list, i, k) ==
  [p \in 1..k |-> [Call("getExtension", list[i + p], Undefined, NoScope) EXCEPT !.outcome = "found"]]

\* A variant of the loop that a failed install ends (a catch that rethrows or
\* breaks)
installLoopBreakOnFailure(r, ext) ==
  LET k == skipRun(r.list, r.i, ext)
      r1 == [r EXCEPT !.i = @ + k, !.skipped = @ + k,
                      !.log = @ \o Skips(r.list, r.i, k)]
  IN IF r.failed > 0
       THEN [r EXCEPT !.pc = "return"]
       ELSE IF r1.i < Len(r1.list)
              THEN issue([r1 EXCEPT !.pc = "installAwait"])
              ELSE [r1 EXCEPT !.pc = "return"]

\* installExtensions(): its for loop from item i + 1 on, up to the next await
\* (pc "installAwait") or to its return (pc "return")
installLoop(r, ext) ==
  LET k == skipRun(r.list, r.i, ext)
      r1 == [r EXCEPT !.i = @ + k, !.skipped = @ + k,
                      !.log = @ \o Skips(r.list, r.i, k)]
  IN IF r1.i < Len(r1.list)
       THEN issue([r1 EXCEPT !.pc = "installAwait"])
       ELSE [r1 EXCEPT !.pc = "return"]

\* A variant of the catch block that tries the failed extension again
installTallyRetry(r, outcome) ==
  IF outcome = "ok"
    THEN [r EXCEPT !.i = @ + 1, !.installed = @ + 1]
    ELSE [r EXCEPT !.failed = @ + 1]

\* A variant of the catch block that logs the failure without counting it
installTallySilentCatch(r, outcome) ==
  IF outcome = "ok"
    THEN [r EXCEPT !.i = @ + 1, !.installed = @ + 1]
    ELSE [r EXCEPT !.i = @ + 1]

\* installExtensions(): the body of the loop after its await, for the outcome
\* the host settled the install with
installTally(r, outcome) ==
  IF outcome = "ok"
    THEN [r EXCEPT !.i = @ + 1, !.installed = @ + 1]
    ELSE [r EXCEPT !.i = @ + 1, !.failed = @ + 1]

\* A variant of the catch block without the "not a registered configuration"
\* test
configureUpdateTallyStrict(r, outcome) ==
  IF outcome = "ok"
    THEN [r EXCEPT !.j = @ + 1, !.settingsSuccess = @ + 1]
    ELSE [r EXCEPT !.j = @ + 1, !.settingsError = @ + 1]

\* configure: the body of the settings loop after its await
configureUpdateTally(r, outcome) ==
  CASE outcome = "ok" -> [r EXCEPT !.j = @ + 1, !.settingsSuccess = @ + 1]
    [] outcome = "notRegistered" -> [r EXCEPT !.j = @ + 1, !.settingsSuccess = @ + 1]
    [] outcome = "error" -> [r EXCEPT !.j = @ + 1, !.settingsError = @ + 1]

\* configure: `answer !== "Yes"`
configureDeclined(answer) == answer # "Yes"

\* A variant of configureStatus that looks at the failed installs only
configureStatusIgnoresSettings(r) ==
  IF r.failed = 0 THEN Complete ELSE Error

\* configure, "Report results": the summary and where the handler goes next
configureStatus(r) ==
  IF r.settingsError = 0 /\ r.failed = 0 THEN Complete ELSE Error

configureReport(r) ==
  LET messages ==
        parts(<<Part(r.installed, "extension(s) installed"),
                Part(r.skipped, "extension(s) already installed"),
                Part(r.settingsSuccess, "setting(s) configured")>>)
      errorParts ==
        parts(<<Part(r.failed, "extension(s) failed"),
                Part(r.settingsError, "setting(s) failed")>>)
  IN IF r.settingsError = 0 /\ r.failed = 0
       THEN [r EXCEPT
               !.pc = IF r.installed > 0 THEN "finalPrompt" ELSE "done",
               !.notifications =
                 Append(@, Notification("information", TRUE, messages, <<>>, <<>>))]
       ELSE [r EXCEPT
               !.pc = "done",
               !.notifications =
                 Append(@, Notification("warning", FALSE, messages, errorParts, <<>>))]

\* configure, "Step 2: Apply settings": the for loop from entry j + 1 on
configureSettingsLoop(r) ==
  IF r.j < Len(r.settings)
    THEN issue([r EXCEPT !.pc = "updateAwait"])
    ELSE configureReport(r)

\* configure from inside installExtensions() up to the handler's next await
configureContinue(r, ext) ==
  LET r1 == installLoop(r, ext)
  IN IF r1.pc = "installAwait"
       THEN r1
       ELSE configureSettingsLoop(
              [r1 EXCEPT !.settings =
                           followedSettings(getSettingsForEnvironment(r1.environment)),
                         !.j = 0])

\* The status configure sets when it reports
ConfigureSetStatus(r) ==
  IF r.notifications # <<>>
    THEN setStatus(configureStatus(r))
    ELSE UNCHANGED statusVars

ConfigureCommand(s) ==
  /\ CanInvoke(s)
  /\ setStatus(InProgress)
  /\ invocations' = invocations + 1
  /\ Suspend(s, NewInvocation("configureSettings",
                              getEnvironment(remoteName, platform, release)), {})
  /\ UNCHANGED <<catalogs, hostVars, storeVars, faults, probe>>

ConfigureAnswer(s) ==
  /\ inv[s].cmd = "configureSettings"
  /\ inv[s].pc = "confirm"
  /\ \E answer \in {"Yes", "No", undefined} :
       LET r0 == [inv[s] EXCEPT !.answer = answer]
       IN IF configureDeclined(answer)
            THEN /\ setStatus(NotStarted)
                 /\ Suspend(s, [r0 EXCEPT !.pc = "done"], {})
                 /\ UNCHANGED catalogs
            ELSE LET r1 ==
                       configureContinue(
                         [r0 EXCEPT !.list =
                            followedExtensions(
                              extensionsToInstall(
                                getEnvironment(remoteName, platform, release)))],
                         extensions)
                 IN /\ Suspend(s, r1, {})
                    /\ ConfigureSetStatus(r1)
                    /\ catalogs' =
                         catalogsAfterPush(
                           extensionsToInstall(
                             getEnvironment(remoteName, platform, release)))
  /\ UNCHANGED <<hostVars, storeVars, faults, invocations, probe, menu>>

ConfigureInstallReturn(s) ==
  /\ inv[s].cmd = "configureSettings"
  /\ inv[s].pc = "installAwait"
  /\ InFlight(s, awaitedCall(inv[s])) \in pending
  /\ \E outcome \in {"ok", "error"} :
       LET r == settle(inv[s], outcome)
           id == r.list[r.i + 1]
           ext == IF outcome = "ok" THEN extensions \cup {id} ELSE extensions
           r2 == configureContinue(installTally(r, outcome), ext)
       IN /\ Budget(outcome)
          /\ extensions' = ext
          /\ Suspend(s, r2, {InFlight(s, awaitedCall(r))})
          /\ ConfigureSetStatus(r2)
  /\ UNCHANGED <<catalogs, hostVars, configuration, globalState, invocations, probe, menu>>

ConfigureUpdateReturn(s) ==
  /\ inv[s].cmd = "configureSettings"
  /\ inv[s].pc = "updateAwait"
  /\ InFlight(s, awaitedCall(inv[s])) \in pending
  /\ \E outcome \in {"ok", "notRegistered", "error"} :
       LET r == settle(inv[s], outcome)
           e == r.settings[r.j + 1]
           r2 == configureSettingsLoop(configureUpdateTally(r, outcome))
       IN /\ Budget(outcome)
          /\ configuration' =
               IF outcome = "ok"
                 THEN [configuration EXCEPT ![e.key] = e.value]
                 ELSE configuration
          /\ Suspend(s, r2, {InFlight(s, awaitedCall(r))})
          /\ ConfigureSetStatus(r2)
  /\ UNCHANGED <<catalogs, hostVars, extensions, globalState, invocations, probe, menu>>

\* The answer to "Reload Now" / "Later"
ConfigureReloadAnswer(s) ==
  /\ inv[s].cmd = "configureSettings"
  /\ inv[s].pc = "finalPrompt"
  /\ \E answer \in {"Reload Now", "Later", undefined} :
       Suspend(s, [inv[s] EXCEPT
                     !.pc = "done",
                     !.executed = IF answer = "Reload Now"
                                    THEN Append(@, "workbench.action.reloadWindow")
                                    ELSE @], {})
  /\ UNCHANGED <<catalogs, hostVars, storeVars, statusVars, faults, invocations, probe, menu>>

(***************************************************************************)
(* extension.ts: bartdorsey.enableCopilot                                  *)
(***************************************************************************)
\* The two config.update statements of enableCopilot, in order
enableCopilotSettings ==
  << Entry("github.copilot.enable",
           Obj(<<<<"*", "true">>, <<"plaintext", "true">>, <<"markdown", "true">>,
                 <<"scminput", "true">>, <<"css", "true">>>>)),
     Entry("chat.disableAIFeatures", Bool(FALSE)) >>

\* enableCopilot: its for loop over COPILOT_EXTENSIONS from item i + 1 on
enableInstallLoop(r, ext) ==
  LET k == skipRun(r.list, r.i, ext)
      r1 == [r EXCEPT !.i = @ + k, !.skipped = @ + k,
                      !.log = @ \o Skips(r.list, r.i, k)]
  IN IF r1.i < Len(r1.list)
       THEN issue([r1 EXCEPT !.pc = "installAwait"])
       ELSE [r1 EXCEPT !.pc = "return"]

\* enableCopilot: the body of its install loop after its await
enableInstallTally(r, outcome) ==
  IF outcome = "ok"
    THEN [r EXCEPT !.i = @ + 1, !.installed = @ + 1]
    ELSE [r EXCEPT !.i = @ + 1, !.failed = @ + 1]

\* enableCopilot: an update statement after its await
enableUpdateTally(r, outcome) ==
  CASE outcome = "ok" -> [r EXCEPT !.j = @ + 1, !.settingsSuccess = @ + 1]
    [] outcome = "notRegistered" -> [r EXCEPT !.j = @ + 1, !.settingsSuccess = @ + 1]
    [] outcome = "error" -> [r EXCEPT !.j = @ + 1, !.settingsFailed = @ + 1]

\* enableCopilot: `answer !== "Yes"`
enableDeclined(answer) == answer # "Yes"

\* enableCopilot, "Report results"
enableReport(r) ==
  LET messages ==
        parts(<<Part(r.installed, "extension(s) installed"),
                Part(r.skipped, "extension(s) already installed"),
                Part(r.settingsSuccess, "setting(s) configured")>>)
      errorParts ==
        parts(<<Part(r.failed, "extension(s) failed"),
                Part(r.settingsFailed, "setting(s) failed")>>)
  IN IF r.failed = 0 /\ r.settingsFailed = 0
       THEN [r EXCEPT
               !.pc = IF r.installed > 0 THEN "finalPrompt" ELSE "done",
               !.notifications =
                 Append(@, Notification("information", TRUE, messages, <<>>, <<>>))]
       ELSE [r EXCEPT
               !.pc = "done",
               !.notifications =
                 Append(@, Notification("warning", FALSE, messages, errorParts, <<>>))]

\* enableCopilot, "Update settings": the update statements from number j + 1 on
enableSettingsSteps(r) ==
  IF r.j < Len(r.settings)
    THEN issue([r EXCEPT !.pc = "updateAwait"])
    ELSE enableReport(r)

\* enableCopilot from inside its install loop up to the handler's next await
enableContinue(r, ext) ==
  LET r1 == enableInstallLoop(r, ext)
  IN IF r1.pc = "installAwait"
       THEN r1
       ELSE enableSettingsSteps(
              [r1 EXCEPT !.settings = followedSettings(enableCopilotSettings),
                         !.j = 0])

EnableCopilotCommand(s) ==
  /\ CanInvoke(s)
  /\ invocations' = invocations + 1
  /\ Suspend(s, NewInvocation("enableCopilot", IdleInvocation.environment), {})
  /\ UNCHANGED <<catalogs, hostVars, storeVars, statusVars, faults, probe>>

EnableAnswer(s) ==
  /\ inv[s].cmd = "enableCopilot"
  /\ inv[s].pc = "confirm"
  /\ \E answer \in {"Yes", "No", undefined} :
       LET r0 == [inv[s] EXCEPT !.answer = answer]
       IN IF enableDeclined(answer)
            THEN Suspend(s, [r0 EXCEPT !.pc = "done"], {})
            ELSE Suspend(s,
                   enableContinue(
                     [r0 EXCEPT !.list = followedExtensions(COPILOT_EXTENSIONS)],
                     extensions),
                   {})
  /\ UNCHANGED <<catalogs, hostVars, storeVars, statusVars, faults, invocations, probe, menu>>

EnableInstallReturn(s) ==
  /\ inv[s].cmd = "enableCopilot"
  /\ inv[s].pc = "installAwait"
  /\ InFlight(s, awaitedCall(inv[s])) \in pending
  /\ \E outcome \in {"ok", "error"} :
       LET r == settle(inv[s], outcome)
           id == r.list[r.i + 1]
           ext == IF outcome = "ok" THEN extensions \cup {id} ELSE extensions
       IN /\ Budget(outcome)
          /\ extensions' = ext
          /\ Suspend(s, enableContinue(enableInstallTally(r, outcome), ext),
                     {InFlight(s, awaitedCall(r))})
  /\ UNCHANGED <<catalogs, hostVars, configuration, globalState, statusVars, invocations, probe, menu>>

EnableUpdateReturn(s) ==
  /\ inv[s].cmd = "enableCopilot"
  /\ inv[s].pc = "updateAwait"
  /\ InFlight(s, awaitedCall(inv[s])) \in pending
  /\ \E outcome \in {"ok", "notRegistered", "error"} :
       LET r == settle(inv[s], outcome)
           e == r.settings[r.j + 1]
       IN /\ Budget(outcome)
          /\ configuration' =
               IF outcome = "ok"
                 THEN [configuration EXCEPT ![e.key] = e.value]
                 ELSE configuration
          /\ Suspend(s, enableSettingsSteps(enableUpdateTally(r, outcome)),
                     {InFlight(s, awaitedCall(r))})
  /\ UNCHANGED <<catalogs, hostVars, extensions, globalState, statusVars, invocations, probe, menu>>

EnableReloadAnswer(s) ==
  /\ inv[s].cmd = "enableCopilot"
  /\ inv[s].pc = "finalPrompt"
  /\ \E answer \in {"Reload Now", "Later", undefined} :
       Suspend(s, [inv[s] EXCEPT
                     !.pc = "done",
                     !.executed = IF answer = "Reload Now"
                                    THEN Append(@, "workbench.action.reloadWindow")
                                    ELSE @], {})
  /\ UNCHANGED <<catalogs, hostVars, storeVars, statusVars, faults, invocations, probe, menu>>

(***************************************************************************)
(* extension.ts: bartdorsey.disableCopilot                                 *)
(***************************************************************************)
\* A variant of disableCopilotSettings that leaves chat.disableAIFeatures off
disableCopilotSettingsChatLeftOn ==
  << Entry("github.copilot.enable",
           Obj(<<<<"*", "false">>, <<"plaintext", "false">>, <<"markdown", "false">>,
                 <<"scminput", "false">>, <<"css", "false">>>>)),
     Entry("chat.disableAIFeatures", Bool(FALSE)) >>

\* The two config.update statements of disableCopilot, in order
disableCopilotSettings ==
  << Entry("github.copilot.enable",
           Obj(<<<<"*", "false">>, <<"plaintext", "false">>, <<"markdown", "false">>,
                 <<"scminput", "false">>, <<"css", "false">>>>)),
     Entry("chat.disableAIFeatures", Bool(TRUE)) >>

\* disableCopilot: the body of its uninstall loop after its await
disableUninstallTally(r, outcome) ==
  CASE outcome = "ok" -> [r EXCEPT !.i = @ + 1, !.uninstalled = @ + 1]
    [] outcome = "notInstalled" -> [r EXCEPT !.i = @ + 1]
    [] outcome = "error" -> [r EXCEPT !.i = @ + 1, !.uninstallFailed = @ + 1]

\* disableCopilot: an update statement after its await
disableUpdateTally(r, outcome) ==
  CASE outcome = "ok" -> [r EXCEPT !.j = @ + 1, !.settingsSuccess = @ + 1]
    [] outcome = "notRegistered" -> [r EXCEPT !.j = @ + 1, !.settingsSuccess = @ + 1]
    [] outcome = "error" -> [r EXCEPT !.j = @ + 1]

\* disableCopilot: `answer !== "Yes"`
disableDeclined(answer) == answer # "Yes"

\* disableCopilot, "Show results"
disableReport(r) ==
  LET messages ==
        parts(<<Part(r.uninstalled, "extension(s) uninstalled"),
                Part(r.settingsSuccess, "setting(s) configured")>>)
  IN IF r.uninstallFailed = 0
       THEN [r EXCEPT
               !.pc = "finalPrompt",
               !.notifications =
                 Append(@, Notification("information", TRUE, messages, <<>>, <<>>))]
       ELSE [r EXCEPT
               !.pc = "done",
               !.notifications =
                 Append(@, Notification("warning", FALSE, messages,
                                        <<Part(r.uninstallFailed,
                                               "extension(s) failed to uninstall")>>,
                                        <<>>))]

\* disableCopilot, "Disable AI features in settings": the statements from j + 1 on
disableSettingsSteps(r) ==
  IF r.j < Len(r.settings)
    THEN issue([r EXCEPT !.pc = "updateAwait"])
    ELSE disableReport(r)

\* disableCopilot: its for loop over uninstallOrder from item i + 1 on, and on
disableContinue(r) ==
  IF r.i < Len(r.list)
    THEN issue([r EXCEPT !.pc = "uninstallAwait"])
    ELSE disableSettingsSteps(
           [r EXCEPT !.settings = followedSettings(disableCopilotSettings),
                     !.j = 0])

\* The outcomes the host can settle an uninstall of id with
UninstallOutcomes(id) ==
  (IF id \in extensions THEN {"ok"} ELSE {"notInstalled"}) \cup {"error"}

DisableCopilotCommand(s) ==
  /\ CanInvoke(s)
  /\ invocations' = invocations + 1
  /\ Suspend(s, NewInvocation("disableCopilot", IdleInvocation.environment), {})
  /\ UNCHANGED <<catalogs, hostVars, storeVars, statusVars, faults, probe>>

DisableAnswer(s) ==
  /\ inv[s].cmd = "disableCopilot"
  /\ inv[s].pc = "confirm"
  /\ \E answer \in {"Yes", "No", undefined} :
       LET r0 == [inv[s] EXCEPT !.answer = answer]
       IN IF disableDeclined(answer)
            THEN Suspend(s, [r0 EXCEPT !.pc = "done"], {})
            ELSE Suspend(s,
                   disableContinue(
                     [r0 EXCEPT !.list = followedExtensions(disableUninstallOrder)]),
                   {})
  /\ UNCHANGED <<catalogs, hostVars, storeVars, statusVars, faults, invocations, probe, menu>>

DisableUninstallReturn(s) ==
  /\ inv[s].cmd = "disableCopilot"
  /\ inv[s].pc = "uninstallAwait"
  /\ InFlight(s, awaitedCall(inv[s])) \in pending
  /\ \E outcome \in UninstallOutcomes(inv[s].list[inv[s].i + 1]) :
       LET r == settle(inv[s], outcome)
           id == r.list[r.i + 1]
       IN /\ Budget(outcome)
          /\ extensions' = IF outcome = "ok" THEN extensions \ {id} ELSE extensions
          /\ Suspend(s, disableContinue(disableUninstallTally(r, outcome)),
                     {InFlight(s, awaitedCall(r))})
  /\ UNCHANGED <<catalogs, hostVars, configuration, globalState, statusVars, invocations, probe, menu>>

DisableUpdateReturn(s) ==
  /\ inv[s].cmd = "disableCopilot"
  /\ inv[s].pc = "updateAwait"
  /\ InFlight(s, awaitedCall(inv[s])) \in pending
  /\ \E outcome \in {"ok", "notRegistered", "error"} :
       LET r == settle(inv[s], outcome)
           e == r.settings[r.j + 1]
       IN /\ Budget(outcome)
          /\ configuration' =
               IF outcome = "ok"
                 THEN [configuration EXCEPT ![e.key] = e.value]
                 ELSE configuration
          /\ Suspend(s, disableSettingsSteps(disableUpdateTally(r, outcome)),
                     {InFlight(s, awaitedCall(r))})
  /\ UNCHANGED <<catalogs, hostVars, extensions, globalState, statusVars, invocations, probe, menu>>

DisableReloadAnswer(s) ==
  /\ inv[s].cmd = "disableCopilot"
  /\ inv[s].pc = "finalPrompt"
  /\ \E answer \in {"Reload Now", "Later", undefined} :
       Suspend(s, [inv[s] EXCEPT
                     !.pc = "done",
                     !.executed = IF answer = "Reload Now"
                                    THEN Append(@, "workbench.action.reloadWindow")
                                    ELSE @], {})
  /\ UNCHANGED <<catalogs, hostVars, storeVars, statusVars, faults, invocations, probe, menu>>

(***************************************************************************)
(* extension.ts: bartdorsey.cleanup                                        *)
(***************************************************************************)
\* Object.keys(environmentSettings), each to be passed with undefined
resetEntries(obj) == [p \in 1..Len(obj) |-> Entry(obj[p].key, Undefined)]

\* cleanup: the body of its uninstall loop after its await
cleanupUninstallTally(r, outcome) ==
  CASE outcome = "ok" -> [r EXCEPT !.i = @ + 1, !.uninstalled = @ + 1]
    [] outcome = "notInstalled" -> [r EXCEPT !.i = @ + 1]
    [] outcome = "error" ->
         [r EXCEPT !.i = @ + 1, !.uninstallFailed = @ + 1,
                   !.failedExtensions = Append(@, r.list[r.i + 1])]

\* cleanup: the body of its reset loop after its await
cleanupResetTally(r, outcome) ==
  IF outcome = "ok"
    THEN [r EXCEPT !.j = @ + 1, !.settingsReset = @ + 1]
    ELSE [r EXCEPT !.j = @ + 1]

\* A variant of the test that returns on "Cancel" alone, so that a dismissed
\* dialog (undefined) goes on
cleanupDeclinedOnlyCancel(answer) == answer = "Cancel"

\* cleanup: `answer !== "Yes, Cleanup"`
cleanupDeclined(answer) == answer # "Yes, Cleanup"

\* cleanup, "Show results"
cleanupReport(r) ==
  LET messages ==
        parts(<<Part(r.uninstalled, "extension(s) uninstalled"),
                Part(r.settingsReset, "setting(s) reset")>>)
  IN IF r.uninstallFailed = 0
       THEN [r EXCEPT
               !.pc = "finalPrompt",
               !.notifications =
                 Append(@, Notification("information", TRUE, messages, <<>>, <<>>))]
       ELSE [r EXCEPT
               !.pc = "finalPrompt",
               !.notifications =
                 Append(@, Notification("warning", FALSE, messages, <<>>,
                                        r.failedExtensions))]

\* cleanup, "Reset all settings to undefined": the for loop from key j + 1 on
cleanupResetLoop(r) ==
  IF r.j < Len(r.settings)
    THEN issue([r EXCEPT !.pc = "updateAwait"])
    ELSE cleanupReport(r)

\* cleanup: its for loop over uninstallOrder from item i + 1 on, and on
cleanupContinue(r) ==
  IF r.i < Len(r.list)
    THEN issue([r EXCEPT !.pc = "uninstallAwait"])
    ELSE cleanupResetLoop(
           [r EXCEPT !.settings =
                       resetEntries(
                         followedSettings(
                           getSettingsForEnvironment(
                             getEnvironment(remoteName, platform, release)))),
                     !.j = 0])

\* A variant of CleanupCommand that puts the status bar back to NotStarted
CleanupCommandResetsStatus(s) ==
  /\ CanInvoke(s)
  /\ setStatus(NotStarted)
  /\ invocations' = invocations + 1
  /\ Suspend(s, NewInvocation("cleanup", IdleInvocation.environment), {})
  /\ UNCHANGED <<catalogs, hostVars, storeVars, faults, probe>>

CleanupCommand(s) ==
  /\ CanInvoke(s)
  /\ invocations' = invocations + 1
  /\ Suspend(s, NewInvocation("cleanup", IdleInvocation.environment), {})
  /\ UNCHANGED <<catalogs, hostVars, storeVars, statusVars, faults, probe>>

CleanupAnswer(s) ==
  /\ inv[s].cmd = "cleanup"
  /\ inv[s].pc = "confirm"
  /\ \E answer \in {"Yes, Cleanup", "Cancel", undefined} :
       LET r0 == [inv[s] EXCEPT !.answer = answer]
       IN IF cleanupDeclined(answer)
            THEN Suspend(s, [r0 EXCEPT !.pc = "done"], {})
            ELSE Suspend(s, issue([r0 EXCEPT !.pc = "backupAwait"]), {})
  /\ UNCHANGED <<catalogs, hostVars, storeVars, statusVars, faults, invocations, probe, menu>>

\* context.globalState.update("backupCreated", true) settles
CleanupBackupReturn(s) ==
  /\ inv[s].cmd = "cleanup"
  /\ inv[s].pc = "backupAwait"
  /\ InFlight(s, awaitedCall(inv[s])) \in pending
  /\ LET r == settle(inv[s], "ok")
         environment == getEnvironment(remoteName, platform, release)
         r1 == [r EXCEPT !.environment = environment,
                         !.list = followedExtensions(cleanupUninstallOrder(environment))]
     IN /\ globalState' = globalState \cup {"backupCreated"}
        /\ Suspend(s, cleanupContinue(r1), {InFlight(s, awaitedCall(r))})
        /\ catalogs' = catalogsAfterPush(allExtensions(environment))
  /\ UNCHANGED <<hostVars, extensions, configuration, statusVars, faults,
                 invocations, probe, menu>>

CleanupUninstallReturn(s) ==
  /\ inv[s].cmd = "cleanup"
  /\ inv[s].pc = "uninstallAwait"
  /\ InFlight(s, awaitedCall(inv[s])) \in pending
  /\ \E outcome \in UninstallOutcomes(inv[s].list[inv[s].i + 1]) :
       LET r == settle(inv[s], outcome)
           id == r.list[r.i + 1]
       IN /\ Budget(outcome)
          /\ extensions' = IF outcome = "ok" THEN extensions \ {id} ELSE extensions
          /\ Suspend(s, cleanupContinue(cleanupUninstallTally(r, outcome)),
                     {InFlight(s, awaitedCall(r))})
  /\ UNCHANGED <<catalogs, hostVars, configuration, globalState, statusVars, invocations, probe, menu>>

CleanupResetReturn(s) ==
  /\ inv[s].cmd = "cleanup"
  /\ inv[s].pc = "updateAwait"
  /\ InFlight(s, awaitedCall(inv[s])) \in pending
  /\ \E outcome \in {"ok", "notRegistered", "error"} :
       LET r == settle(inv[s], outcome)
           e == r.settings[r.j + 1]
       IN /\ Budget(outcome)
          /\ configuration' =
               IF outcome = "ok"
                 THEN [configuration EXCEPT ![e.key] = e.value]
                 ELSE configuration
          /\ Suspend(s, cleanupResetLoop(cleanupResetTally(r, outcome)),
                     {InFlight(s, awaitedCall(r))})
  /\ UNCHANGED <<catalogs, hostVars, extensions, globalState, statusVars, invocations, probe, menu>>

\* The answer to "Reload Now" / "Later" or to "Open Extensions" / "Later"
CleanupFinalAnswer(s) ==
  /\ inv[s].cmd = "cleanup"
  /\ inv[s].pc = "finalPrompt"
  /\ \E answer \in {"Reload Now", "Open Extensions", "Later", undefined} :
       /\ answer = "Reload Now" => inv[s].uninstallFailed = 0
       /\ answer = "Open Extensions" => inv[s].uninstallFailed # 0
       /\ Suspend(s, [inv[s] EXCEPT
                        !.pc = "done",
                        !.executed =
                          CASE answer = "Reload Now" ->
                                 Append(@, "workbench.action.reloadWindow")
                            [] answer = "Open Extensions" ->
                                 Append(@, "workbench.view.extensions")
                            [] OTHER -> @], {})
  /\ UNCHANGED <<catalogs, hostVars, storeVars, statusVars, faults, invocations, probe, menu>>

(***************************************************************************)
(* extension.ts: bartdorsey.showMenu.  config.get returns the value last   *)
(* written to the Global store, undefined for a key never written (the     *)
(* defaults other extensions register for a key are not part of this       *)
(* program).                                                               *)
(***************************************************************************)
\* Object.values(copilotSettings).some((val) => val === true), for a value
\* that is truthy and whose typeof is "object"; no array is ever stored under
\* the key
someValueTrue(v) ==
  /\ v.kind = "object"
  /\ \E p \in 1..Len(v.props) : v.props[p][2] = "true"

\* A variant of copilotEnabled that looks at github.copilot.enable only
copilotEnabledCopilotOnly(config) ==
  someValueTrue(config["github.copilot.enable"])

\* showMenu: copilotEnabled, from the two values read
copilotEnabled(config) ==
  \/ someValueTrue(config["github.copilot.enable"])
  \/ config["chat.disableAIFeatures"] = Bool(FALSE)

MenuItem(label, action) == [label |-> label, action |-> action]

\* showMenu: menuItems
menuItems(config) ==
  << MenuItem("$(gear) Configure Settings", "configure"),
     IF copilotEnabled(config)
       THEN MenuItem("$(circle-slash) Disable GitHub Copilot", "disableCopilot")
       ELSE MenuItem("$(copilot) Enable GitHub Copilot", "enableCopilot"),
     MenuItem("$(trash) Cleanup", "cleanup") >>

\* showMenu: the command its if chain executes for the action of the choice
dispatch(action) ==
  CASE action = "configure" -> <<"bartdorsey.configureSettings">>
    [] action = "enableCopilot" -> <<"bartdorsey.enableCopilot">>
    [] action = "disableCopilot" -> <<"bartdorsey.disableCopilot">>
    [] action = "cleanup" -> <<"bartdorsey.cleanup">>
    [] OTHER -> <<>>

\* activate: the handlers registered for the command ids
executeCommand(s, command) ==
  CASE command = "bartdorsey.configureSettings" -> ConfigureCommand(s)
    [] command = "bartdorsey.enableCopilot" -> EnableCopilotCommand(s)
    [] command = "bartdorsey.disableCopilot" -> DisableCopilotCommand(s)
    [] command = "bartdorsey.cleanup" -> CleanupCommand(s)

\* No showMenu handler is running
ClosedMenu == [pc |-> "closed", items |-> <<>>, choice |-> undefined]

\* showMenu up to its await of showQuickPick
MenuCommand ==
  /\ menu.pc = "closed"
  /\ menu' = [ClosedMenu EXCEPT !.pc = "pick", !.items = menuItems(configuration)]
  /\ UNCHANGED <<catalogs, hostVars, storeVars, statusVars, inv, pending, faults, invocations,
                 installRequests, keysWritten, probe>>

\* showQuickPick resolves: with item c of the menu, or with undefined (c = 0)
\* when the quick pick is dismissed.  An item is picked while the session can
\* still start a command.
ShowQuickPickReturn ==
  /\ menu.pc = "pick"
  /\ \E c \in 0..Len(menu.items) :
       /\ c > 0 => invocations < MaxInvocations
       /\ menu' = [menu EXCEPT
                     !.pc = "chosen",
                     !.choice = IF c = 0 THEN undefined ELSE menu.items[c].action]
  /\ UNCHANGED <<catalogs, hostVars, storeVars, statusVars, inv, pending, faults, invocations,
                 installRequests, keysWritten, probe>>

\* showMenu resumed with the choice: `if (choice)` and the if chain on
\* choice.action, after which the handler returns
MenuChoice(s) ==
  /\ menu.pc = "chosen"
  /\ menu' = ClosedMenu
  /\ IF menu.choice = undefined \/ dispatch(menu.choice) = <<>>
       THEN UNCHANGED <<catalogs, hostVars, storeVars, statusVars, inv, pending, faults,
                        invocations, installRequests, keysWritten, probe>>
       ELSE executeCommand(s, dispatch(menu.choice)[1])
(***************************************************************************)
(* The sessions.  The host signals do not change in a session.  activate() *)
(* constructs the StatusBar, whose constructor calls updateStatusBar().    *)
(***************************************************************************)
RemoteNames == {undefined, "wsl", "ssh-remote"}
Platforms == {"win32", "linux", "darwin"}

ReleaseLinuxGeneric == \* "6.8.0-45-generic"
  <<"6", ".", "8", ".", "0", "-", "4", "5", "-", "g", "e", "n", "e", "r", "i", "c">>
ReleaseWsl2 == \* "5.15.153.1-microsoft-standard-WSL2"
  <<"5", ".", "1", "5", ".", "1", "5", "3", ".", "1", "-", "m", "i", "c", "r", "o",
    "s", "o", "f", "t", "-", "s", "t", "a", "n", "d", "a", "r", "d", "-", "W", "S",
    "L", "2">>
ReleaseWsl1 == \* "4.4.0-19041-Microsoft"
  <<"4", ".", "4", ".", "0", "-", "1", "9", "0", "4", "1", "-", "M", "i", "c", "r",
    "o", "s", "o", "f", "t">>
ReleaseUpper == \* "5.10-MICROSOFT"
  <<"5", ".", "1", "0", "-", "M", "I", "C", "R", "O", "S", "O", "F", "T">>
ReleaseNearMiss == \* "6.1.0-microsof"
  <<"6", ".", "1", ".", "0", "-", "m", "i", "c", "r", "o", "s", "o", "f">>
ReleaseWindows == \* "10.0.22631"
  <<"1", "0", ".", "0", ".", "2", "2", "6", "3", "1">>

Releases ==
  {ReleaseLinuxGeneric, ReleaseWsl2, ReleaseWsl1, ReleaseUpper, ReleaseNearMiss,
   ReleaseWindows}

\* The hosts the command sessions run on: one or two per environment
Hosts ==
  { <<undefined, "win32", ReleaseWindows>>,
    <<"wsl", "linux", ReleaseWsl2>>,
    <<undefined, "linux", ReleaseWsl1>>,
    <<undefined, "linux", ReleaseLinuxGeneric>>,
    <<undefined, "darwin", ReleaseLinuxGeneric>> }

\* What is installed when the session starts
InstalledAtStart ==
  { {},
    {"ms-python.python", "github.copilot"},
    FollowedExtensions \ {"github.copilot", "github.copilot-chat"} }

ConfigKeys ==
  keySet(followedSettings(commonSettings_literal \o windowsSettings_literal
                            \o linuxSettings_literal \o wslSettings_literal))

\* probe: the function applied, its arguments and its result
NoProbe ==
  [fn |-> "none", environment |-> "other", left |-> <<>>, right |-> <<>>,
   result |-> <<>>, helper |-> <<>>]

InitCommon ==
  /\ configuration = [k \in ConfigKeys |-> Undefined]
  /\ globalState = {}
  /\ currentStatus = NotStarted
  /\ statusBarItem =
       updateStatusBar(NotStarted, getEnvironmentLabel(remoteName, platform, release))
  /\ inv = [s \in Slots |-> IdleInvocation]
  /\ pending = {}
  /\ faults = 0
  /\ invocations = 0
  /\ installRequests = {}
  /\ keysWritten = {}
  /\ probe = NoProbe
  /\ menu = ClosedMenu
  /\ catalogs = ModuleLoaded

Init ==
  /\ \E h \in Hosts : remoteName = h[1] /\ platform = h[2] /\ release = h[3]
  /\ extensions \in InstalledAtStart
  /\ InitCommon

\* No other invocation is suspended: the commands run one after the other
Alone == \A t \in Slots : Free(t)

\* A command is run from the command palette, which the open quick pick
\* would have to be dismissed for
FromPalette == menu.pc = "closed" /\ UNCHANGED menu

Next ==
  \E s \in Slots :
    \/ Alone /\ FromPalette /\ ConfigureCommand(s)
    \/ ConfigureAnswer(s)
    \/ ConfigureInstallReturn(s)
    \/ ConfigureUpdateReturn(s)
    \/ ConfigureReloadAnswer(s)
    \/ Alone /\ FromPalette /\ EnableCopilotCommand(s)
    \/ EnableAnswer(s)
    \/ EnableInstallReturn(s)
    \/ EnableUpdateReturn(s)
    \/ EnableReloadAnswer(s)
    \/ Alone /\ FromPalette /\ DisableCopilotCommand(s)
    \/ DisableAnswer(s)
    \/ DisableUninstallReturn(s)
    \/ DisableUpdateReturn(s)
    \/ DisableReloadAnswer(s)
    \/ Alone /\ FromPalette /\ CleanupCommand(s)
    \/ CleanupAnswer(s)
    \/ CleanupBackupReturn(s)
    \/ CleanupUninstallReturn(s)
    \/ CleanupResetReturn(s)
    \/ CleanupFinalAnswer(s)
    \/ Alone /\ MenuCommand
    \/ ShowQuickPickReturn
    \/ MenuChoice(s)

Spec == Init /\ [][Next]_vars

(***************************************************************************)
(* The sessions in which the user does not wait for a command to return: a *)
(* command can be invoked while the handlers of earlier invocations are    *)
(* suspended at their awaits.                                              *)
(***************************************************************************)
\* One session: a Linux host on which all the followed extensions but one of
\* the required ones and the Copilot ones are installed
InitOverlap ==
  /\ remoteName = undefined /\ platform = "linux" /\ release = ReleaseLinuxGeneric
  /\ extensions = FollowedExtensions \ {"vscodevim.vim", "github.copilot", "github.copilot-chat"}
  /\ InitCommon

NextOverlap ==
  \E s \in Slots :
    \/ FromPalette /\ ConfigureCommand(s)
    \/ ConfigureAnswer(s)
    \/ ConfigureInstallReturn(s)
    \/ ConfigureUpdateReturn(s)
    \/ ConfigureReloadAnswer(s)
    \/ FromPalette /\ EnableCopilotCommand(s)
    \/ EnableAnswer(s)
    \/ EnableInstallReturn(s)
    \/ EnableUpdateReturn(s)
    \/ EnableReloadAnswer(s)
    \/ FromPalette /\ DisableCopilotCommand(s)
    \/ DisableAnswer(s)
    \/ DisableUninstallReturn(s)
    \/ DisableUpdateReturn(s)
    \/ DisableReloadAnswer(s)
    \/ FromPalette /\ CleanupCommand(s)
    \/ CleanupAnswer(s)
    \/ CleanupBackupReturn(s)
    \/ CleanupUninstallReturn(s)
    \/ CleanupResetReturn(s)
    \/ CleanupFinalAnswer(s)
    \/ MenuCommand
    \/ ShowQuickPickReturn
    \/ MenuChoice(s)

SpecOverlap == InitOverlap /\ [][NextOverlap]_vars


(***************************************************************************)
(* The catalog functions applied on their own: getEnvironment() to every   *)
(* combination of host signals, the list and settings builders to every    *)
(* environment, and the object spread to small objects that share keys.    *)
(***************************************************************************)
InitCatalog ==
  /\ remoteName \in RemoteNames
  /\ platform \in Platforms
  /\ release \in Releases
  /\ extensions = {}
  /\ InitCommon

ProbeEnvironment ==
  /\ probe = NoProbe
  /\ probe' = [NoProbe EXCEPT
                 !.fn = "getEnvironment",
                 !.environment = getEnvironment(remoteName, platform, release)]
  /\ UNCHANGED <<catalogs, hostVars, storeVars, statusVars, inv, pending, faults, invocations,
                 installRequests, keysWritten, menu>>

ProbeExtensions ==
  /\ probe = NoProbe
  /\ \E environment \in Environments :
       /\ probe' = [NoProbe EXCEPT
                      !.fn = "extensionsToInstall",
                      !.environment = environment,
                      !.result = extensionsToInstall(environment),
                      !.helper = getExtensionsForEnvironment(environment)]
       /\ catalogs' = catalogsAfterPush(extensionsToInstall(environment))
  /\ UNCHANGED <<hostVars, storeVars, statusVars, inv, pending, faults, invocations,
                 installRequests, keysWritten, menu>>

ProbeSettings ==
  /\ probe = NoProbe
  /\ \E environment \in Environments :
       probe' = [NoProbe EXCEPT
                   !.fn = "getSettingsForEnvironment",
                   !.environment = environment,
                   !.result = getSettingsForEnvironment(environment)]
  /\ UNCHANGED <<catalogs, hostVars, storeVars, statusVars, inv, pending, faults, invocations,
                 installRequests, keysWritten, menu>>

\* Objects of at most two entries over two keys of the catalogs
SpreadKeys == {"editor.tabSize", "vs64.showWelcome"}
SpreadValues == {Num("4"), Bool(FALSE)}
SpreadObjects ==
  {<<>>}
    \cup {<<Entry(k, v)>> : k \in SpreadKeys, v \in SpreadValues}
    \cup {<<Entry(k[1], v[1]), Entry(k[2], v[2])>> :
            k \in {q \in SpreadKeys \X SpreadKeys : q[1] # q[2]},
            v \in SpreadValues \X SpreadValues}

ProbeSpread ==
  /\ probe = NoProbe
  /\ \E a \in SpreadObjects, b \in SpreadObjects :
       probe' = [NoProbe EXCEPT
                   !.fn = "spread", !.left = a, !.right = b, !.result = spread(a, b)]
  /\ UNCHANGED <<catalogs, hostVars, storeVars, statusVars, inv, pending, faults, invocations,
                 installRequests, keysWritten, menu>>

NextCatalog ==
  \/ ProbeEnvironment
  \/ ProbeExtensions
  \/ ProbeSettings
  \/ ProbeSpread

SpecCatalog == InitCatalog /\ [][NextCatalog]_vars

(***************************************************************************)
(* Properties of the environment, of the lists and of the handlers.        *)
(***************************************************************************)
TypeOK ==
  /\ currentStatus \in SetupStatus
  /\ faults \in 0..MaxFaults
  /\ invocations \in 0..MaxInvocations
  /\ \A s \in Slots :
       inv[s].pc \in {"idle", "confirm", "finalPrompt", "done"} \cup AwaitPcs

\* The releases of Releases that hold "microsoft" in some mix of cases
MicrosoftReleases == {ReleaseWsl2, ReleaseWsl1, ReleaseUpper}

\* C1: getEnvironment returns exactly one of the four labels for every
\* (remoteName, platform, release): wsl when remoteName is "wsl"; otherwise
\* windows on win32; otherwise wsl on linux with a release holding "microsoft"
\* in any case; otherwise linux on linux; other for everything else.
C1_EnvironmentClassified ==
  probe.fn = "getEnvironment" =>
    /\ probe.environment \in Environments
    /\ probe.environment = "wsl" <=>
         \/ remoteName = "wsl"
         \/ remoteName # "wsl" /\ platform = "linux" /\ release \in MicrosoftReleases
    /\ probe.environment = "windows" <=> remoteName # "wsl" /\ platform = "win32"
    /\ probe.environment = "linux" <=>
         remoteName # "wsl" /\ platform = "linux" /\ release \notin MicrosoftReleases
    /\ probe.environment = "other" <=>
         remoteName # "wsl" /\ platform \notin {"win32", "linux"}

\* C1 witness: a local Linux session whose kernel release spells Microsoft
\* with a capital is classified wsl
C1_Witness ==
  /\ probe.fn = "getEnvironment"
  /\ remoteName = undefined
  /\ platform = "linux"
  /\ release = ReleaseWsl1
  /\ probe.environment = "wsl"

\* C2: for each environment the list configure tries to install is
\* REQUIRED_EXTENSIONS followed by rosc.vs64 and the WSL extension on windows
\* and wsl, and REQUIRED_EXTENSIONS alone on linux and other; the WSL extension
\* is in it only on windows and wsl, the Copilot extensions never, and
\* getExtensionsForEnvironment returns the same list.
C2_InstallListIsExpectedUnion ==
  probe.fn = "extensionsToInstall" =>
    /\ probe.environment \in {"windows", "wsl"} =>
         probe.result = REQUIRED_EXTENSIONS_literal
                          \o <<"rosc.vs64", "ms-vscode-remote.remote-wsl">>
    /\ probe.environment \in {"linux", "other"} => probe.result = REQUIRED_EXTENSIONS_literal
    /\ arrayIncludes(probe.result, "ms-vscode-remote.remote-wsl")
         <=> probe.environment \in {"windows", "wsl"}
    /\ ~arrayIncludes(probe.result, "github.copilot")
    /\ ~arrayIncludes(probe.result, "github.copilot-chat")
    /\ probe.helper = probe.result

\* C2 witness: the list built for windows ends with rosc.vs64 and the WSL
\* extension
C2_Witness ==
  /\ probe.fn = "extensionsToInstall"
  /\ probe.environment = "windows"
  /\ Len(probe.result) = Len(REQUIRED_EXTENSIONS_literal) + 2
  /\ probe.result[Len(probe.result)] = "ms-vscode-remote.remote-wsl"

\* C3: getSettingsForEnvironment returns commonSettings merged with
\* windowsSettings on windows, with windowsSettings then wslSettings on wsl,
\* with linuxSettings on linux, and commonSettings itself on other; every key
\* of commonSettings is in the result, and on a key of both the OS-specific
\* value wins (also for the spread itself, on objects that share keys).
C3_Merged(result, common, os) ==
  /\ keySet(result) = keySet(common) \cup keySet(os)
  /\ Len(result) = Cardinality(keySet(result))
  /\ \A k \in keySet(os) : valueOf(result, k) = valueOf(os, k)
  /\ \A k \in keySet(common) \ keySet(os) : valueOf(result, k) = valueOf(common, k)

C3_SettingsAreExpectedUnion ==
  /\ probe.fn = "getSettingsForEnvironment" =>
       /\ probe.environment = "windows" =>
            C3_Merged(probe.result, commonSettings_literal, windowsSettings_literal)
       /\ probe.environment = "wsl" =>
            /\ C3_Merged(probe.result, commonSettings_literal,
                         windowsSettings_literal \o
                           SelectSeq(wslSettings_literal,
                                     LAMBDA e : e.key \notin keySet(windowsSettings_literal)))
            /\ \A k \in keySet(wslSettings_literal) :
                 valueOf(probe.result, k) = valueOf(wslSettings_literal, k)
            /\ \A k \in keySet(windowsSettings_literal) \ keySet(wslSettings_literal) :
                 valueOf(probe.result, k) = valueOf(windowsSettings_literal, k)
       /\ probe.environment = "linux" =>
            C3_Merged(probe.result, commonSettings_literal, linuxSettings_literal)
       /\ probe.environment = "other" => probe.result = commonSettings_literal
       /\ keySet(commonSettings_literal) \subseteq keySet(probe.result)
  /\ probe.fn = "spread" => C3_Merged(probe.result, probe.left, probe.right)

\* C3 witness: the settings for wsl hold a common key and a Windows tool path
C3_Witness ==
  /\ probe.fn = "getSettingsForEnvironment"
  /\ probe.environment = "wsl"
  /\ valueOf(probe.result, "editor.tabSize") = Num("4")
  /\ valueOf(probe.result, "vs64.showWelcome") = Bool(FALSE)

(***************************************************************************)
(* What the properties of the command handlers speak of.                   *)
(***************************************************************************)
\* The invocation's dialog was answered with its confirming button
Confirmed(r) ==
  \/ r.cmd \in {"configureSettings", "enableCopilot", "disableCopilot"} /\ r.answer = "Yes"
  \/ r.cmd = "cleanup" /\ r.answer = "Yes, Cleanup"

\* The handler is past its loops: it showed its summary
Reported(r) == Confirmed(r) /\ r.pc \in {"finalPrompt", "done"}

ExtensionOps == {"getExtension", "installExtension", "uninstallExtension"}
HostCallOps == {"installExtension", "uninstallExtension", "update"}

entriesOf(log, ops) == SelectSeq(log, LAMBDA c : c.op \in ops)
targetsOf(log, ops) ==
  [p \in 1..Len(entriesOf(log, ops)) |-> entriesOf(log, ops)[p].target]
countOutcome(log, ops, outcomes) ==
  Len(SelectSeq(log, LAMBDA c : c.op \in ops /\ c.outcome \in outcomes))

\* The extension list and the setting keys of a command, as the catalogs give
\* them, restricted to the followed items
ExpectedEnvironmentExtensions(environment) ==
  IF environment \in {"windows", "wsl"}
    THEN REQUIRED_EXTENSIONS_literal \o <<"rosc.vs64", "ms-vscode-remote.remote-wsl">>
    ELSE REQUIRED_EXTENSIONS_literal

ExpectedExtensions(r) ==
  followedExtensions(
    CASE r.cmd = "configureSettings" -> ExpectedEnvironmentExtensions(r.environment)
      [] r.cmd = "enableCopilot" -> <<"github.copilot", "github.copilot-chat">>
      [] r.cmd = "disableCopilot" -> <<"github.copilot-chat", "github.copilot">>
      [] r.cmd = "cleanup" ->
           <<"ms-python.black-formatter", "ms-python.flake8", "github.copilot-chat">>
             \o SelectSeq(ExpectedEnvironmentExtensions(r.environment),
                          LAMBDA id : id \notin {"ms-python.black-formatter",
                                                 "ms-python.flake8",
                                                 "github.copilot-chat"})
      [] OTHER -> <<>>)

ExpectedKeys(r) ==
  IF r.cmd \in {"enableCopilot", "disableCopilot"}
    THEN <<"github.copilot.enable", "chat.disableAIFeatures">>
    ELSE keys(followedSettings(
                IF r.environment \in {"windows", "wsl"}
                  THEN commonSettings_literal \o windowsSettings_literal
                  ELSE commonSettings_literal))

\* C4: per-item failures do not stop a batch.  Whatever the host calls before
\* it did, a confirmed invocation handles the extensions of its list once each
\* and in list order, then passes the keys of its settings once each and in
\* order to config.update, and has handled all of both when it reports.
C4_BatchContinues ==
  \A s \in Slots :
    LET r == inv[s]
        handled == targetsOf(r.log, ExtensionOps)
        updated == targetsOf(r.log, {"update"})
    IN Confirmed(r) =>
         /\ handled = SubSeq(ExpectedExtensions(r), 1, Len(handled))
         /\ updated = SubSeq(ExpectedKeys(r), 1, Len(updated))
         /\ \A p, q \in 1..Len(r.log) :
              p < q /\ r.log[p].op = "update" => r.log[q].op = "update"
         /\ updated # <<>> => handled = ExpectedExtensions(r)
         /\ Reported(r) =>
              handled = ExpectedExtensions(r) /\ updated = ExpectedKeys(r)

\* C4 witness: a configure run that reported although an install and an
\* update had failed
C4_Witness ==
  \E s \in Slots :
    /\ inv[s].cmd = "configureSettings"
    /\ Reported(inv[s])
    /\ inv[s].failed = 1
    /\ inv[s].settingsError = 1
    /\ inv[s].log[1].outcome = "error"
    /\ Len(targetsOf(inv[s].log, ExtensionOps)) >= 4

\* C5: in configure, enableCopilot and disableCopilot an update that fails with
\* "not a registered configuration" counts as a configured setting and never
\* as a failed one; a configure run whose only failures are of this kind ends
\* with status Complete and the success notification.
C5_UnregisteredIsBenign ==
  \A s \in Slots :
    LET r == inv[s]
    IN r.cmd \in {"configureSettings", "enableCopilot", "disableCopilot"} =>
         /\ r.settingsSuccess = countOutcome(r.log, {"update"}, {"ok", "notRegistered"})
         /\ r.settingsError =
              IF r.cmd = "configureSettings"
                THEN countOutcome(r.log, {"update"}, {"error"}) ELSE 0
         /\ r.settingsFailed =
              IF r.cmd = "enableCopilot"
                THEN countOutcome(r.log, {"update"}, {"error"}) ELSE 0
         /\ r.cmd = "configureSettings" /\ Reported(r)
              /\ countOutcome(r.log, HostCallOps, {"error"}) = 0
              => /\ currentStatus = Complete
                 /\ Len(r.notifications) = 1
                 /\ r.notifications[1].success
                 /\ r.notifications[1].severity = "information"

\* C5 witness: a configure run with two unregistered settings ended Complete
C5_Witness ==
  \E s \in Slots :
    /\ inv[s].cmd = "configureSettings"
    /\ inv[s].pc = "done"
    /\ countOutcome(inv[s].log, {"update"}, {"notRegistered"}) = 2
    /\ currentStatus = Complete
    /\ inv[s].notifications[1].success

\* The per-item failures of an invocation that its code does not call benign
RECURSIVE sumCounts(_)
sumCounts(ps) == IF ps = <<>> THEN 0 ELSE Head(ps).count + sumCounts(Tail(ps))

failedItems(r) ==
  countOutcome(r.log, HostCallOps,
               IF r.cmd = "cleanup" THEN {"error", "notRegistered"} ELSE {"error"})

\* C6 (as the specification states it): every failed item is counted in a
\* failure tally shown in the end-of-batch notification, so a success
\* notification means no item failed.
C6_FailuresSurfaced ==
  \A s \in Slots :
    LET r == inv[s]
    IN Reported(r) =>
         /\ sumCounts(r.notifications[1].errors) + Len(r.notifications[1].failedList)
              = failedItems(r)
         /\ r.notifications[1].success => failedItems(r) = 0

(***************************************************************************)
(* Every host call and every dialog of an invocation is settled in the     *)
(* end: the step that resumes a suspended handler is weakly fair.          *)
(***************************************************************************)
Resume(s) ==
  \/ ConfigureAnswer(s)
  \/ ConfigureInstallReturn(s)
  \/ ConfigureUpdateReturn(s)
  \/ ConfigureReloadAnswer(s)
  \/ EnableAnswer(s)
  \/ EnableInstallReturn(s)
  \/ EnableUpdateReturn(s)
  \/ EnableReloadAnswer(s)
  \/ DisableAnswer(s)
  \/ DisableUninstallReturn(s)
  \/ DisableUpdateReturn(s)
  \/ DisableReloadAnswer(s)
  \/ CleanupAnswer(s)
  \/ CleanupBackupReturn(s)
  \/ CleanupUninstallReturn(s)
  \/ CleanupResetReturn(s)
  \/ CleanupFinalAnswer(s)

\* A handler is suspended at a dialog or at a host call: exactly then a
\* Resume step of its slot is possible (a dialog can always be answered, and
\* a host call can always resolve), so this is ENABLED <<Resume(s)>>_vars
Suspended(s) == inv[s].pc \notin {"idle", "done"}

\* What makes Suspended(s) the enabling condition of Resume(s): a suspended
\* handler is at a dialog or at an await whose call is in flight
SuspendedCanResume ==
  \A s \in Slots :
    Suspended(s) =>
      /\ inv[s].pc \in {"confirm", "finalPrompt"} \cup AwaitPcs
      /\ inv[s].pc \in AwaitPcs =>
           /\ InFlight(s, awaitedCall(inv[s])) \in pending
           /\ inv[s].log # <<>>
      /\ inv[s].pc \in {"installAwait", "uninstallAwait"} => inv[s].i < Len(inv[s].list)
      /\ inv[s].pc = "updateAwait" => inv[s].j < Len(inv[s].settings)

\* Weak fairness of Resume(s), WF_vars(Resume(s)), with its ENABLED written
\* as the state predicate it equals
Fairness(s) == []<>(~Suspended(s)) \/ []<><<Resume(s)>>_vars

FairSpec == Spec /\ \A s \in Slots : Fairness(s)

\* C7: no failure is fatal.  Whatever host calls fail, a confirmed invocation
\* ends having shown exactly one end-of-batch notification, it never shows a
\* second one, and it makes at most as many install, uninstall and update
\* calls as its extension list and its settings have items.
C7_AlwaysReports ==
  /\ \A s \in Slots :
       (Confirmed(inv[s]) /\ inv[s].pc # "done")
         ~> (inv[s].pc = "done" /\ Len(inv[s].notifications) = 1)
  /\ [](\A s \in Slots :
          /\ Len(inv[s].notifications) <= 1
          /\ inv[s].pc = "done" /\ Confirmed(inv[s]) => Len(inv[s].notifications) = 1
          /\ Len(entriesOf(inv[s].log, HostCallOps))
               <= Len(ExpectedExtensions(inv[s])) + Len(ExpectedKeys(inv[s])))

\* C7 witness: a cleanup whose uninstall and reset calls failed twice ended
\* with its one notification
C7_Witness ==
  \E s \in Slots :
    /\ inv[s].cmd = "cleanup"
    /\ inv[s].pc = "done"
    /\ Confirmed(inv[s])
    /\ failedItems(inv[s]) = 2
    /\ Len(inv[s].notifications) = 1

\* C8: no command changes the extensions, the configuration or globalState,
\* or issues a host call, unless its dialog was answered with its confirming
\* button: a step after which no invocation is a confirmed one changes none
\* of them, and only confirmed invocations have calls in flight or logged.
C8_ConfirmationFirst ==
  [][/\ (\A s \in Slots : ~Confirmed(inv'[s])) =>
          /\ extensions' = extensions
          /\ configuration' = configuration
          /\ globalState' = globalState
     /\ \A c \in pending' : Confirmed(inv'[c.slot])
     /\ \A s \in Slots : ~Confirmed(inv'[s]) => inv'[s].log = <<>>]_vars

\* C8 witness: a cleanup whose modal dialog was dismissed has returned
C8_Witness ==
  \E s \in Slots :
    /\ inv[s].cmd = "cleanup"
    /\ inv[s].answer = undefined
    /\ inv[s].pc = "done"
    /\ globalState = {}

\* C9 (as the specification states it): after confirmed configure and
\* enableCopilot runs and a confirmed cleanup in which every host call
\* succeeded, every extension the runs passed to the install primitive was
\* passed to the uninstall primitive and every key they wrote was reset to
\* undefined at Global scope.
C9_CleanupRevertsEverything ==
  \A s \in Slots :
    LET r == inv[s]
    IN /\ r.cmd = "cleanup"
       /\ Reported(r)
       /\ faults = 0
       /\ countOutcome(r.log, HostCallOps, {"ok"}) = Len(entriesOf(r.log, HostCallOps))
       => /\ \A id \in installRequests :
               \E p \in 1..Len(r.log) :
                 r.log[p].op = "uninstallExtension" /\ r.log[p].target = id
          /\ \A k \in keysWritten :
               \E p \in 1..Len(r.log) :
                 /\ r.log[p].op = "update"
                 /\ r.log[p].target = k
                 /\ r.log[p].value = Undefined
                 /\ r.log[p].scope = Global

\* C10: the host calls of an invocation are strictly sequential: at most one
\* is in flight, it is the last one logged, every call logged before it is
\* settled, and configure issues its first update only when the whole install
\* list has been handled.
C10_OneCallAtATime ==
  \A s \in Slots :
    LET r == inv[s]
        mine == {c \in pending : c.slot = s}
    IN /\ Cardinality(mine) <= 1
       /\ \A c \in mine :
            /\ r.pc \in AwaitPcs
            /\ r.log # <<>>
            /\ r.log[Len(r.log)] = c.call
       /\ \A p \in 1..Len(r.log) :
            r.log[p].outcome = "pending" => p = Len(r.log) /\ mine # {}
       /\ r.cmd = "configureSettings" /\ entriesOf(r.log, {"update"}) # <<>> =>
            /\ Len(entriesOf(r.log, ExtensionOps)) = Len(r.list)
            /\ \A p \in 1..Len(r.log) :
                 r.log[p].op \in ExtensionOps => r.log[p].outcome # "pending"

\* C10 witness: configure awaits its third update after an install failed
C10_Witness ==
  \E s \in Slots :
    /\ inv[s].cmd = "configureSettings"
    /\ inv[s].pc = "updateAwait"
    /\ inv[s].j = 2
    /\ inv[s].failed = 1
    /\ Cardinality({c \in pending : c.slot = s}) = 1

(***************************************************************************)
(* Overlapping invocations, the menu and the status bar.                   *)
(***************************************************************************)
\* The tallies of an invocation, counted again from the calls of its own log
OwnTallies(r) ==
  /\ r.installed = countOutcome(r.log, {"installExtension"}, {"ok"})
  /\ r.failed = countOutcome(r.log, {"installExtension"}, {"error"})
  /\ r.skipped = countOutcome(r.log, {"getExtension"}, {"found"})
  /\ r.uninstalled = countOutcome(r.log, {"uninstallExtension"}, {"ok"})
  /\ r.uninstallFailed = countOutcome(r.log, {"uninstallExtension"}, {"error"})

\* A confirmed configure invocation is at an install or at a settings update
ConfigureRunning(r) ==
  /\ r.cmd = "configureSettings"
  /\ Confirmed(r)
  /\ r.pc \in {"installAwait", "updateAwait"}

\* C11 (as the specification states it): invocations that overlap at their
\* awaits share nothing but their own tallies, so while a confirmed configure
\* is installing or applying settings the status bar shows InProgress whatever
\* else is invoked meanwhile, and each invocation's counts come from its own
\* items.
C11_OverlapUndisturbed ==
  \A s \in Slots :
    /\ ConfigureRunning(inv[s]) =>
         /\ currentStatus = InProgress
         /\ statusBarItem.text = "$(sync~spin)"
    /\ OwnTallies(inv[s])

\* A confirmed configure, the only command run so far, has reported and none
\* of its host calls failed
ConfiguredCleanly(r) ==
  /\ r.cmd = "configureSettings"
  /\ Reported(r)
  /\ invocations = 1
  /\ faults = 0

\* C12 (as the specification states it): after a confirmed configure run in
\* which every host call succeeded, and before any enableCopilot, the settings
\* leave Copilot disabled as showMenu judges it: github.copilot.enable has no
\* true value, copilotEnabled is false and the menu offers "Enable GitHub
\* Copilot".
C12_CopilotDisabledByDefault ==
  \A s \in Slots :
    ConfiguredCleanly(inv[s]) =>
      /\ ~someValueTrue(configuration["github.copilot.enable"])
      /\ ~copilotEnabled(configuration)
      /\ menuItems(configuration)[2].action = "enableCopilot"
      /\ menu.pc = "pick" => menu.items[2].action = "enableCopilot"

\* <<dependent, what it depends on>>
Dependencies ==
  { <<"ms-python.flake8", "ms-python.python">>,
    <<"ms-python.black-formatter", "ms-python.python">>,
    <<"github.copilot-chat", "github.copilot">> }

before(list, a, b) ==
  \E q \in 1..Len(list) : list[q] = b /\ \E p \in 1..(q - 1) : list[p] = a

\* In a list that holds what d depends on, d comes first and only first
DependentsFirst(list, deps) ==
  \A d \in deps :
    arrayIncludes(list, d[2]) =>
      before(list, d[1], d[2]) /\ ~before(list, d[2], d[1])

\* The uninstall orders of cleanup, for every environment, and of
\* disableCopilot, over the whole catalogs
UninstallOrdersDependentsFirst ==
  /\ \A environment \in Environments :
       DependentsFirst(cleanupUninstallOrder(environment), Dependencies)
  /\ DependentsFirst(disableUninstallOrder, Dependencies)

\* C13: dependents are uninstalled before what they depend on.  In the
\* uninstall order of cleanup for every environment and in that of
\* disableCopilot, flake8 and black-formatter come before ms-python.python and
\* copilot-chat before github.copilot wherever the latter is uninstalled; and
\* the uninstall calls an invocation has issued are in that order.
C13_DependentsFirst ==
  /\ UninstallOrdersDependentsFirst
  /\ \A s \in Slots :
       DependentsFirst(targetsOf(inv[s].log, {"uninstallExtension"}),
                       {d \in Dependencies : d[1] \in FollowedExtensions})

\* C13 witness: a cleanup has issued the uninstall of ms-python.python after
\* the one of ms-python.flake8 failed
C13_Witness ==
  \E s \in Slots :
    /\ inv[s].cmd = "cleanup"
    /\ inv[s].uninstallFailed = 1
    /\ before(targetsOf(inv[s].log, {"uninstallExtension"}),
              "ms-python.flake8", "ms-python.python")
    /\ inv[s].log[2].target = "ms-python.flake8"
    /\ inv[s].log[2].outcome = "error"


\* The condition under which the menu is to offer Disable: the value of
\* github.copilot.enable is an object with a value equal to true, or that of
\* chat.disableAIFeatures is exactly false
DisableExpected(config) ==
  \/ /\ config["github.copilot.enable"].kind = "object"
     /\ \E p \in 1..Len(config["github.copilot.enable"].props) :
          config["github.copilot.enable"].props[p][2] = "true"
  \/ /\ config["chat.disableAIFeatures"].kind = "boolean"
     /\ config["chat.disableAIFeatures"] = Bool(FALSE)

\* The command that matches an item of the menu
CommandOfLabel(label) ==
  CASE label = "$(gear) Configure Settings" -> "configureSettings"
    [] label = "$(circle-slash) Disable GitHub Copilot" -> "disableCopilot"
    [] label = "$(copilot) Enable GitHub Copilot" -> "enableCopilot"
    [] label = "$(trash) Cleanup" -> "cleanup"

\* The step starts one invocation, of command cmd, and touches no other
StartsOnly(cmd) ==
  /\ invocations' = invocations + 1
  /\ \E s \in Slots :
       /\ inv'[s] # inv[s]
       /\ inv'[s].cmd = cmd
       /\ inv'[s].log = <<>>
       /\ \A t \in Slots \ {s} : inv'[t] = inv[t]

\* C14: the menu showMenu offers has exactly three items, Configure Settings
\* first and Cleanup last, and between them Disable GitHub Copilot if
\* github.copilot.enable is an object with a true value or
\* chat.disableAIFeatures is exactly false, Enable GitHub Copilot otherwise;
\* the handler resumed with an item of the menu starts exactly the matching
\* command, and resumed after the menu was dismissed it starts none.
C14_MenuAdapts ==
  [][/\ (menu.pc = "closed" /\ menu'.pc = "pick") =>
          /\ Len(menu'.items) = 3
          /\ menu'.items[1].label = "$(gear) Configure Settings"
          /\ menu'.items[3].label = "$(trash) Cleanup"
          /\ menu'.items[2].label =
               IF DisableExpected(configuration)
                 THEN "$(circle-slash) Disable GitHub Copilot"
                 ELSE "$(copilot) Enable GitHub Copilot"
     /\ (menu.pc = "pick" /\ menu'.pc = "chosen") =>
          /\ menu'.items = menu.items
          /\ \/ menu'.choice = undefined
             \/ \E c \in 1..Len(menu.items) : menu'.choice = menu.items[c].action
     /\ (menu.pc = "chosen" /\ menu'.pc = "closed") =>
          IF menu.choice = undefined
            THEN inv' = inv /\ invocations' = invocations /\ pending' = pending
            ELSE \E c \in 1..Len(menu.items) :
                   /\ menu.items[c].action = menu.choice
                   /\ StartsOnly(CommandOfLabel(menu.items[c].label))]_vars

\* C14 witness: after an enableCopilot run the menu offered Disable GitHub
\* Copilot, and the handler is resumed with that item
C14_Witness ==
  /\ menu.pc = "chosen"
  /\ menu.choice = "disableCopilot"
  /\ menu.items[2].label = "$(circle-slash) Disable GitHub Copilot"
  /\ someValueTrue(configuration["github.copilot.enable"])
  /\ \E s \in Slots : inv[s].cmd = "enableCopilot" /\ inv[s].pc = "done"

\* A confirmed run of command cmd has reported, and its two setting writes
\* both succeeded
ToggledWith(r, cmd) ==
  /\ r.cmd = cmd
  /\ Reported(r)
  /\ Len(entriesOf(r.log, {"update"})) = 2
  /\ \A p \in 1..2 : entriesOf(r.log, {"update"})[p].outcome = "ok"

\* The menu showMenu would offer now, and the one it is showing if it is
\* open, has this label between Configure Settings and Cleanup
NextMenuOffers(label) ==
  /\ menuItems(configuration)[2].label = label
  /\ menu.pc = "pick" => menu.items[2].label = label

\* C15: with the commands run one after the other, once the latest command
\* is a confirmed enableCopilot whose two setting writes succeeded, showMenu
\* offers Disable GitHub Copilot; once it is a confirmed disableCopilot whose
\* two setting writes succeeded, showMenu offers Enable GitHub Copilot.
C15_ToggleMatchesMenu ==
  \A s \in Slots :
    /\ ToggledWith(inv[s], "enableCopilot") =>
         NextMenuOffers("$(circle-slash) Disable GitHub Copilot")
    /\ ToggledWith(inv[s], "disableCopilot") =>
         NextMenuOffers("$(copilot) Enable GitHub Copilot")

\* C15 witness: after a configure run, a confirmed disableCopilot wrote its
\* two settings and the menu, opened next, is showing Enable GitHub Copilot
C15_Witness ==
  \E s \in Slots :
    /\ ToggledWith(inv[s], "disableCopilot")
    /\ invocations = 2
    /\ "workbench.tree.indent" \in keysWritten
    /\ menu.pc = "pick"
    /\ menu.items[2].label = "$(copilot) Enable GitHub Copilot"

\* The config.update calls of a log
ConfigWrites(log) == entriesOf(log, {"update"})

\* C16: every config.update call a command has issued, settled or still in
\* flight, targets ConfigurationTarget.Global.
C16_GlobalScopeOnly ==
  /\ \A s \in Slots : \A p \in 1..Len(ConfigWrites(inv[s].log)) :
       ConfigWrites(inv[s].log)[p].scope = "ConfigurationTarget.Global"
  /\ \A c \in pending :
       c.call.op = "update" => c.call.scope = "ConfigurationTarget.Global"

\* C16 witness: a configure run wrote settings, and the cleanup after it has
\* reset one of them and has the reset of the next in flight
C16_Witness ==
  \E s \in Slots :
    /\ inv[s].cmd = "cleanup"
    /\ inv[s].pc = "updateAwait"
    /\ keysWritten # {}
    /\ Len(ConfigWrites(inv[s].log)) = 2
    /\ ConfigWrites(inv[s].log)[1].outcome = "ok"
    /\ \E c \in pending : c.slot = s /\ c.call.op = "update" /\ c.call.value = Undefined

\* The icon the documentation gives each setup status
DocumentedIcon(status) ==
  CASE status = NotStarted -> "$(rocket)"
    [] status = InProgress -> "$(sync~spin)"
    [] status = Complete -> "$(check)"
    [] status = Error -> "$(warning)"

\* C17 (as the specification states it): the status bar item always shows
\* the icon of the current setup status: a rocket for NotStarted, the
\* spinning sync for InProgress, the check for Complete and the warning for
\* Error.
C17_FixedIcons ==
  statusBarItem.text = DocumentedIcon(currentStatus)

\* The weaker statement that does hold: the item shown is always the one
\* updateStatusBar leaves for the current status
ShownIsOfCurrentStatus ==
  statusBarItem =
    updateStatusBar(currentStatus, getEnvironmentLabel(remoteName, platform, release))

\* The label of the status bar item: the envLabel its tooltip starts with
ShownLabel == statusBarItem.tooltip[1]

\* C18: for every (remoteName, platform, release) the label of the status
\* bar item agrees with what getEnvironment returns: " [WSL]" exactly for
\* wsl, " [Windows]" exactly for windows, " [Linux]" exactly for linux and
\* the empty label exactly for other.
C18_LabelAgrees ==
  probe.fn = "getEnvironment" =>
    /\ ShownLabel = " [WSL]" <=> probe.environment = "wsl"
    /\ ShownLabel = " [Windows]" <=> probe.environment = "windows"
    /\ ShownLabel = " [Linux]" <=> probe.environment = "linux"
    /\ ShownLabel = "" <=> probe.environment = "other"

\* C18 witness: a local Linux session whose kernel release spells Microsoft
\* with a capital is classified wsl and labelled [WSL]
C18_Witness ==
  /\ probe.fn = "getEnvironment"
  /\ remoteName = undefined
  /\ platform = "linux"
  /\ release = ReleaseWsl1
  /\ probe.environment = "wsl"
  /\ ShownLabel = " [WSL]"

\* The step runs a segment of the handler of one of these commands
StepOf(cmds) ==
  \E s \in Slots : inv'[s] # inv[s] /\ inv'[s].cmd \in cmds

\* C19: the setup status and the status bar item persist across the other
\* commands: a step that changes them is a step of a configure handler, and no
\* step of an enableCopilot, disableCopilot or cleanup handler, and no step of
\* showMenu that starts no command, changes them, whatever the host answers.
C19_StatusPersists ==
  [][/\ statusVars' # statusVars => StepOf({"configureSettings"})
     /\ StepOf({"enableCopilot", "disableCopilot", "cleanup"}) =>
          statusVars' = statusVars
     /\ (menu' # menu /\ inv' = inv) => statusVars' = statusVars]_vars

\* C19 witness: a configure run left the status Complete, and a confirmed
\* cleanup after it has reported with a failed uninstall
C19_Witness ==
  \E s \in Slots :
    /\ inv[s].cmd = "cleanup"
    /\ Reported(inv[s])
    /\ inv[s].uninstallFailed > 0
    /\ invocations = 2
    /\ currentStatus = Complete
    /\ statusBarItem.text = "$(check)"

\* A confirmed configure invocation has ended, or is at the reload prompt it
\* ends with
ConfigureEnded(r) == r.cmd = "configureSettings" /\ Reported(r)

\* No install and no settings update of the invocation failed, a "not a
\* registered configuration" error not counting as a failure
NothingFailed(r) ==
  /\ r.failed = 0
  /\ r.settingsError = 0
  /\ countOutcome(r.log, {"installExtension", "update"}, {"error"}) = 0

\* C20: with the commands run one after the other, a confirmed configure
\* leaves the status Complete if no extension install failed and no setting
\* update failed non-benignly, and Error otherwise; so it never leaves
\* InProgress or NotStarted.
C20_ConfigureEndStatus ==
  \A s \in Slots :
    ConfigureEnded(inv[s]) =>
      /\ currentStatus \in {Complete, Error}
      /\ currentStatus = Complete <=> NothingFailed(inv[s])
      /\ currentStatus = Error <=>
           (inv[s].failed > 0 \/ inv[s].settingsError > 0)

\* C20 witness: a confirmed configure whose installs all succeeded and one of
\* whose settings updates failed has ended, and the status is Error
C20_Witness ==
  \E s \in Slots :
    /\ ConfigureEnded(inv[s])
    /\ inv[s].pc = "done"
    /\ inv[s].installed > 0
    /\ inv[s].failed = 0
    /\ inv[s].settingsError = 1
    /\ currentStatus = Error

(***************************************************************************)
(* The tallies and the catalogs.                                           *)
(***************************************************************************)
\* The counters of an invocation
Counters(r) ==
  <<r.installed, r.failed, r.skipped, r.uninstalled, r.uninstallFailed,
    r.settingsSuccess, r.settingsError>>

\* installExtensions() has returned to the configure handler that called it
InstallExtensionsReturned(r) ==
  /\ r.cmd = "configureSettings"
  /\ Confirmed(r)
  /\ r.pc \in {"updateAwait", "finalPrompt", "done"}

\* The number of keys of the settings map of the invocation's environment
ExpectedKeyCount(r) ==
  Cardinality({ExpectedKeys(r)[p] : p \in 1..Len(ExpectedKeys(r))})

\* C21: the tallies account for every item exactly once.  Once
\* installExtensions has returned, installed + failed + skipped is the length
\* of the environment's install list; once configure's settings loop has
\* ended, settingsSuccess + settingsError is the number of keys of the
\* environment's settings; no counter is negative, and no step of an
\* invocation decreases one of its counters.
C21_TalliesAccount ==
  [][\A s \in Slots :
       /\ \A p \in 1..Len(Counters(inv'[s])) : Counters(inv'[s])[p] >= 0
       /\ InstallExtensionsReturned(inv'[s]) =>
            inv'[s].installed + inv'[s].failed + inv'[s].skipped
              = Len(ExpectedExtensions(inv'[s]))
       /\ (inv'[s].cmd = "configureSettings" /\ Reported(inv'[s])) =>
            inv'[s].settingsSuccess + inv'[s].settingsError
              = ExpectedKeyCount(inv'[s])
       /\ ~Free(s) =>
            \A p \in 1..Len(Counters(inv[s])) :
              Counters(inv'[s])[p] >= Counters(inv[s])[p]]_vars

\* C21 witness: a confirmed configure has reported after one install
\* succeeded, one failed, the other extensions were found installed, and one
\* settings update failed
C21_Witness ==
  \E s \in Slots :
    /\ inv[s].cmd = "configureSettings"
    /\ Reported(inv[s])
    /\ inv[s].installed = 1
    /\ inv[s].failed = 1
    /\ inv[s].skipped > 0
    /\ inv[s].settingsError = 1
    /\ inv[s].settingsSuccess > 0

\* The install list and the settings map an invocation computes for an
\* environment from the catalogs as loaded
FirstInstallList(environment) ==
  IF environment \in {"windows", "wsl"}
    THEN REQUIRED_EXTENSIONS_literal \o WINDOWS_EXTENSIONS_literal
           \o WSL_SPECIFIC_EXTENSIONS_literal \o <<WSL_EXTENSION>>
    ELSE IF environment = "linux"
           THEN REQUIRED_EXTENSIONS_literal \o LINUX_EXTENSIONS_literal
           ELSE REQUIRED_EXTENSIONS_literal

FirstSettings(environment) ==
  spread(commonSettings_literal,
         CASE environment = "windows" -> windowsSettings_literal
           [] environment = "wsl" -> spread(windowsSettings_literal, wslSettings_literal)
           [] environment = "linux" -> linuxSettings_literal
           [] OTHER -> <<>>)

\* What a first invocation computes, for every environment
FirstComputed ==
  [environment \in Environments |->
     [list |-> FirstInstallList(environment), settings |-> FirstSettings(environment)]]

\* C22: the catalogs are static.  Whatever commands have run, the
\* module-level extension arrays and settings objects are the ones the
\* extension was loaded with, and the install list and the settings map
\* computed for each environment are the ones a first invocation computes.
C22_CatalogsStatic ==
  /\ catalogs = ModuleLoaded
  /\ \A environment \in Environments :
       /\ extensionsToInstall(environment) = FirstComputed[environment].list
       /\ allExtensions(environment) = FirstComputed[environment].list
       /\ getSettingsForEnvironment(environment) = FirstComputed[environment].settings

\* C22 witness: on Windows, where the list builders push to their list, a
\* confirmed configure has written settings and the confirmed cleanup run
\* after it has built its uninstall list and reported
C22_Witness ==
  \E s \in Slots :
    /\ platform = "win32"
    /\ remoteName = undefined
    /\ inv[s].cmd = "cleanup"
    /\ Reported(inv[s])
    /\ invocations = 2
    /\ keysWritten # {}
    /\ arrayIncludes(inv[s].list, "rosc.vs64")
    /\ Len(inv[s].list) = Len(ExpectedExtensions(inv[s]))
=============================================================================
